---------------------------- MODULE Spec2Model ----------------------------
(***************************************************************************)
(* Ingress domain resolution of jx: StepVerifyIngressOptions.Run,          *)
(* discoverIngressDomain, waitForIngressControllerHost,                    *)
(* findDefaultIngressValues (pkg/cmd/step/verify/step_verify_ingress.go)   *)
(* and CommonOptions.GetDomain with findFirstExternalNodeIP (package opts, *)
(* the second file held in pkg/cmd/step/step_next_version_test.go).        *)
(*                                                                         *)
(* Strings are TLA+ strings: concatenation is \o, suffixes are computed    *)
(* with SubSeq, a port number is formatted digit by digit and an IP        *)
(* literal is recognised by parsing the dotted quad.                       *)
(***************************************************************************)
EXTENDS Integers, Sequences, FiniteSets, TLC

(***************************************************************************)
(* Bounds of the model.                                                    *)
(***************************************************************************)
\* longest load-balancer status list of a service drawn by Init
MaxLB == 2
\* longest port list of a NodePort service drawn by Init
MaxPorts == 2
\* a counter of prompts stops counting here (it saturates, the loop goes on)
MaxCount == 3
\* the longest list of apps of the apps file
MaxApps == 2

(***************************************************************************)
(* Program constants.                                                      *)
(***************************************************************************)
\* RetryUntilTrueOrTimeout(time.Minute*5, time.Second*3, fn)
PollTimeoutSeconds == 300
PollIntervalSeconds == 3
\* o.RetryQuiet(5*6, time.Second*10, f)
LookupAttempts == 30

\* package cloud
AWS == "aws"
EKS == "eks"
GKE == "gke"
IKS == "iks"
KUBERNETES == "kubernetes"
MINIKUBE == "minikube"
MINISHIFT == "minishift"

\* corev1.ServiceType, corev1.NodeAddressType
ServiceTypeNodePort == "NodePort"
ServiceTypeLoadBalancer == "LoadBalancer"
NodeExternalIP == "ExternalIP"
NodeInternalIP == "InternalIP"

NipSuffix == ".nip.io"
AmazonSuffix == ".amazonaws.com"
IKSSuffix == ".containers.appdomain.cloud"

\* the nil error
Nil == "nil"

(***************************************************************************)
(* Strings.                                                                *)
(***************************************************************************)
\* strings.HasSuffix
HasSuffix(s, suffix) ==
    /\ Len(s) >= Len(suffix)
    /\ SubSeq(s, Len(s) - Len(suffix) + 1, Len(s)) = suffix

HasPrefix(s, prefix) ==
    /\ Len(s) >= Len(prefix)
    /\ SubSeq(s, 1, Len(prefix)) = prefix

Char(s, i) == SubSeq(s, i, i)

DigitChars == "0123456789"

IsDigit(c) == \E d \in 1..10 : Char(DigitChars, d) = c

DigitValue(c) == (CHOOSE d \in 1..10 : Char(DigitChars, d) = c) - 1

\* the %d verb of fmt.Sprintf, for a port number
RECURSIVE FormatInt(_)
FormatInt(n) ==
    IF n < 10 THEN Char(DigitChars, n + 1)
    ELSE FormatInt(n \div 10) \o Char(DigitChars, (n % 10) + 1)

RECURSIVE DecimalValue(_)
DecimalValue(s) ==
    IF Len(s) = 0 THEN 0
    ELSE 10 * DecimalValue(SubSeq(s, 1, Len(s) - 1)) + DigitValue(Char(s, Len(s)))

\* one field of a dotted quad: 1 to 3 digits, at most 255
IsOctet(s) ==
    /\ Len(s) \in 1..3
    /\ \A i \in 1..Len(s) : IsDigit(Char(s, i))
    /\ DecimalValue(s) <= 255

\* net.ParseIP(s) # nil, for the IPv4 dotted-quad form
IsIP(s) ==
    LET dots == {i \in 1..Len(s) : Char(s, i) = "."}
    IN  /\ Cardinality(dots) = 3
        /\ \E a, b, c \in dots :
              /\ a < b /\ b < c
              /\ IsOctet(SubSeq(s, 1, a - 1))
              /\ IsOctet(SubSeq(s, a + 1, b - 1))
              /\ IsOctet(SubSeq(s, b + 1, c - 1))
              /\ IsOctet(SubSeq(s, c + 1, Len(s)))

\* errors.Wrap, errors.Wrapf
Wrap(message, cause) == message \o ": " \o cause

\* net.IP.IsLoopback, for an IPv4 address in its String() form
IsLoopback(ip) == HasPrefix(ip, "127.")

SeqsUpTo(S, n) == UNION {[1..k -> S] : k \in 0..n}

\* a counter that stops counting at MaxCount
Inc(c) == IF c < MaxCount THEN c + 1 ELSE c

(***************************************************************************)
(* The values the model draws from.                                        *)
(***************************************************************************)
LoadBalancerIP == "35.205.151.95"
SecondIP == "10.20.30.40"
HostName == "lb.example.com"
AmazonHostName == "elb.amazonaws.com"
NodeExternalAddress == "35.189.202.25"
NodeInternalAddress == "1.2.3.4"
ExternalIPOverride == "1.2.3.4"
MinikubeIP == "192.168.99.100"
LoopbackIP == "127.0.0.1"
ResolvedIP == "52.1.2.3"
CustomDomain == "apps.example.com"

Providers == {"", GKE, KUBERNETES, AWS, EKS, IKS, MINIKUBE, MINISHIFT}

\* corev1.LoadBalancerIngress values
LoadBalancerEntries ==
    { [IP |-> "", Hostname |-> ""],
      [IP |-> LoadBalancerIP, Hostname |-> ""],
      [IP |-> "", Hostname |-> HostName],
      [IP |-> "", Hostname |-> AmazonHostName],
      [IP |-> SecondIP, Hostname |-> HostName] }

\* corev1.ServicePort values
ServicePorts ==
    { [Name |-> "http", NodePort |-> 30123],
      [Name |-> "https", NodePort |-> 32443],
      [Name |-> "metrics", NodePort |-> 0] }

NoService == [exists |-> FALSE, Type |-> "", Ingress |-> <<>>, Ports |-> <<>>]

LoadBalancerServices ==
    { [exists |-> TRUE, Type |-> ServiceTypeLoadBalancer, Ingress |-> i, Ports |-> <<>>] :
        i \in SeqsUpTo(LoadBalancerEntries, MaxLB) }

NodePortServices ==
    { [exists |-> TRUE, Type |-> ServiceTypeNodePort, Ingress |-> i, Ports |-> p] :
        i \in {<<>>, <<[IP |-> LoadBalancerIP, Hostname |-> ""]>>},
        p \in SeqsUpTo(ServicePorts, MaxPorts) }

Services == {NoService} \cup LoadBalancerServices \cup NodePortServices

\* corev1.Node values: the Status.Addresses of a node
NodeWithExternal ==
    << [Type |-> NodeInternalIP, Address |-> NodeInternalAddress],
       [Type |-> NodeExternalIP, Address |-> NodeExternalAddress] >>
NodeInternalOnly == << [Type |-> NodeInternalIP, Address |-> NodeInternalAddress] >>
NodeEmptyExternal == << [Type |-> NodeExternalIP, Address |-> ""] >>
NodeSecondExternal == << [Type |-> NodeExternalIP, Address |-> SecondIP] >>

NodeLists ==
    { <<>>,
      <<NodeWithExternal>>,
      <<NodeInternalOnly>>,
      <<NodeInternalOnly, NodeEmptyExternal>>,
      <<NodeEmptyExternal, NodeWithExternal, NodeSecondExternal>> }

(***************************************************************************)
(* State.                                                                  *)
(***************************************************************************)
VARIABLES
    o,              \* the options: BatchMode and the flags Provider, IngressNamespace, IngressService
    svc,            \* the cluster: the ingress controller's service
    nodes,          \* the cluster: the node list
    gd,             \* the running GetDomain call: parameters, locals, position, result
    n,              \* how often each collaborator has been called
    pc,             \* position of Run / discoverIngressDomain
    requirements,   \* the requirements object in memory
    appsConfig,     \* the declared apps
    domain,         \* discoverIngressDomain's local domain
    wait,           \* the running waitForIngressControllerHost call
    result,         \* what discoverIngressDomain and Run returned
    saved,          \* the requirements file as last written by SaveConfig
    runs            \* the concurrent calls of Run on one directory: position, loaded requirements, result

clusterVars == <<svc, nodes>>
callerVars == <<pc, requirements, appsConfig, domain, wait, result, saved>>
vars == <<o, svc, nodes, gd, n, pc, requirements, appsConfig, domain, wait, result, saved, runs>>

\* one more call of a collaborator; a count stops at MaxCount
Count(name) == [n EXCEPT ![name] = Inc(@)]

ZeroCounts ==
    [ kubeClient |-> 0, svcGet |-> 0, nodeList |-> 0, command |-> 0, confirm |-> 0,
      ask |-> 0, register |-> 0, getDomain |-> 0, poll |-> 0,
      notice |-> 0, registryGet |-> 0, save |-> 0 ]

(***************************************************************************)
(* GetDomain: the Endpoint Locator.                                        *)
(***************************************************************************)
\* mutant: the first entry that reports an address is kept
RECURSIVE ScanLoadBalancerFirstWins(_, _)
ScanLoadBalancerFirstWins(ingress, address) ==
    IF ingress = <<>> THEN address
    ELSE LET v == Head(ingress)
         IN  IF v.IP # "" THEN v.IP
             ELSE IF v.Hostname # "" THEN v.Hostname
             ELSE ScanLoadBalancerFirstWins(Tail(ingress), address)

\* mutant: the hostname of an entry is preferred to its IP
RECURSIVE ScanLoadBalancerHostnameFirst(_, _)
ScanLoadBalancerHostnameFirst(ingress, address) ==
    IF ingress = <<>> THEN address
    ELSE LET v == Head(ingress)
         IN  ScanLoadBalancerHostnameFirst(Tail(ingress),
                 IF v.Hostname # "" THEN v.Hostname
                 ELSE IF v.IP # "" THEN v.IP
                 ELSE address)

\* for _, v := range svc.Status.LoadBalancer.Ingress { ... }
RECURSIVE ScanLoadBalancer(_, _)
ScanLoadBalancer(ingress, address) ==
    IF ingress = <<>> THEN address
    ELSE LET v == Head(ingress)
         IN  ScanLoadBalancer(Tail(ingress),
                 IF v.IP # "" THEN v.IP
                 ELSE IF v.Hostname # "" THEN v.Hostname
                 ELSE address)

\* mutant: the type of the node address is not looked at
RECURSIVE FirstAddressOfAnyType(_)
FirstAddressOfAnyType(addresses) ==
    IF addresses = <<>> THEN ""
    ELSE LET add == Head(addresses)
         IN  IF add.Address # "" THEN add.Address
             ELSE FirstAddressOfAnyType(Tail(addresses))

\* for _, add := range node.Status.Addresses { ... }
RECURSIVE FirstExternalAddress(_)
FirstExternalAddress(addresses) ==
    IF addresses = <<>> THEN ""
    ELSE LET add == Head(addresses)
         IN  IF add.Type = NodeExternalIP /\ add.Address # "" THEN add.Address
             ELSE FirstExternalAddress(Tail(addresses))

\* for _, node := range nodeList.Items { ... }
RECURSIVE FirstExternalNode(_)
FirstExternalNode(items) ==
    IF items = <<>> THEN ""
    ELSE LET found == FirstExternalAddress(Head(items))
         IN  IF found # "" THEN found ELSE FirstExternalNode(Tail(items))

\* what client.CoreV1().Nodes().List can answer
NodeListResults ==
    { [items |-> nodes, err |-> Nil],
      [items |-> <<>>, err |-> "NotFound"],
      [items |-> <<>>, err |-> "Forbidden"] }

\* mutant: it is an error when no node has an external address
findFirstExternalNodeIPStrict(list) ==
    IF list.err # Nil /\ list.err # "NotFound"
    THEN [ip |-> "", err |-> "cannot list Nodes to find externalIP"]
    ELSE IF FirstExternalNode(list.items) = ""
    THEN [ip |-> "", err |-> "no Node has an externalIP"]
    ELSE [ip |-> FirstExternalNode(list.items), err |-> Nil]

findFirstExternalNodeIP(list) ==
    IF list.err # Nil /\ list.err # "NotFound"
    THEN [ip |-> "", err |-> "cannot list Nodes to find externalIP"]
    ELSE [ip |-> FirstExternalNode(list.items), err |-> Nil]

\* mutant: a port named "http" that has a node port is preferred
RECURSIVE NodePortAddressNamedHttp(_, _, _)
NodePortAddressNamedHttp(ports, externalIP, address) ==
    IF ports = <<>> THEN address
    ELSE LET p == Head(ports)
         IN  IF p.NodePort # 0 /\ p.Name = "http"
             THEN externalIP \o ":" \o FormatInt(p.NodePort)
             ELSE NodePortAddressNamedHttp(Tail(ports), externalIP,
                      IF p.NodePort # 0
                      THEN externalIP \o ":" \o FormatInt(p.NodePort)
                      ELSE address)

\* mutant: the first port that has a node port is kept
RECURSIVE NodePortAddressFirstWins(_, _, _)
NodePortAddressFirstWins(ports, externalIP, address) ==
    IF ports = <<>> THEN address
    ELSE LET p == Head(ports)
         IN  IF p.NodePort # 0
             THEN externalIP \o ":" \o FormatInt(p.NodePort)
             ELSE NodePortAddressFirstWins(Tail(ports), externalIP, address)

\* for _, p := range svc.Spec.Ports { if p.NodePort != 0 { address = ... } }
RECURSIVE NodePortAddress(_, _, _)
NodePortAddress(ports, externalIP, address) ==
    IF ports = <<>> THEN address
    ELSE LET p == Head(ports)
         IN  NodePortAddress(Tail(ports), externalIP,
                 IF p.NodePort # 0
                 THEN externalIP \o ":" \o FormatInt(p.NodePort)
                 ELSE address)

(***************************************************************************)
(* GetDomain, step by step.  gd.pc is the position in the function:        *)
(* "switch" (the provider switch), "aws", "confirm" and "custom" (the for   *)
(* loop of the AWS branch), "iks", "resolve", "lookup" (one attempt of     *)
(* RetryQuiet), "final", and "returned" or "panic" once it has ended.      *)
(***************************************************************************)
\* gd.args are the arguments as passed; gd.located is the address after the provider
\* switch, gd.listErr the answer of the node list ("none": not asked),
\* gd.inCluster and gd.interpret what o.InCluster() and JX_INTERPRET_PIPELINE said
\* once read, gd.resolved whether the lookup found an IP.
NoCall ==
    [ pc |-> "idle",
      args |-> [domain |-> "", provider |-> "", externalIP |-> "", nodePort |-> FALSE],
      domain |-> "", provider |-> "", externalIP |-> "",
      nodePort |-> FALSE, address |-> "", located |-> "", listErr |-> "none",
      defaultDomain |-> "",
      tries |-> 0, envRead |-> FALSE, inCluster |-> FALSE, interpret |-> FALSE,
      resolved |-> FALSE, retDomain |-> "", retErr |-> Nil ]

\* the call GetDomain(client, domain, provider, ns, service, externalIP, nodePort)
GetDomainCall(dom, provider, externalIP, nodePort) ==
    [ NoCall EXCEPT !.pc = "switch",
                    !.args = [domain |-> dom, provider |-> provider,
                              externalIP |-> externalIP, nodePort |-> nodePort],
                    !.domain = dom, !.provider = provider,
                    !.externalIP = externalIP, !.nodePort = nodePort,
                    !.address = externalIP ]

GetDomainReturn(dom, err) ==
    [gd EXCEPT !.pc = "returned", !.retDomain = dom, !.retErr = err]

\* where GetDomain goes on after the provider switch
AfterSwitch(provider) ==
    IF provider \in {AWS, EKS} THEN "aws"
    ELSE IF provider = IKS THEN "iks"
    ELSE "resolve"

\* mutant: the ip command is run even when an external IP is given
GetDomainLocalDevAlwaysRuns ==
    /\ gd.pc = "switch"
    /\ gd.provider \in {MINIKUBE, MINISHIFT}
    /\ n' = Count("command")
    /\ \E out \in { [ip |-> MinikubeIP, err |-> Nil],
                    [ip |-> "", err |-> "CommandFailed"] } :
          gd' = IF out.err # Nil
                THEN GetDomainReturn("", out.err)
                ELSE [gd EXCEPT !.pc = AfterSwitch(gd.provider),
                                !.address = out.ip, !.located = out.ip]
    /\ UNCHANGED <<o, clusterVars, callerVars, runs>>

\* case cloud.MINIKUBE, case cloud.MINISHIFT
GetDomainLocalDev ==
    /\ gd.pc = "switch"
    /\ gd.provider \in {MINIKUBE, MINISHIFT}
    /\ IF gd.address = ""
       THEN /\ n' = Count("command")
            /\ \E out \in { [ip |-> MinikubeIP, err |-> Nil],
                            [ip |-> "", err |-> "CommandFailed"] } :
                  gd' = IF out.err # Nil
                        THEN GetDomainReturn("", out.err)
                        ELSE [gd EXCEPT !.pc = AfterSwitch(gd.provider),
                                        !.address = out.ip, !.located = out.ip]
       ELSE /\ n' = n
            /\ gd' = [gd EXCEPT !.pc = AfterSwitch(gd.provider), !.located = gd.address]
    /\ UNCHANGED <<o, clusterVars, callerVars, runs>>

\* what client.CoreV1().Services(ns).Get(name) can answer
ServiceGetErrors == {IF svc.exists THEN Nil ELSE "NotFound", "ServerError"}

\* mutant: the nodes are listed even when an external IP is given, and win
ExternalIPResultsAlwaysList(externalIP) ==
    { [ip |-> IF findFirstExternalNodeIP(list).ip # ""
              THEN findFirstExternalNodeIP(list).ip ELSE externalIP,
       err |-> findFirstExternalNodeIP(list).err,
       listErr |-> list.err] : list \in NodeListResults }

\* if externalIP == "" { externalIP, err = findFirstExternalNodeIP(client) }:
\* the external IP to use, the error, and the answer of the node list if asked
ExternalIPResults(externalIP) ==
    IF externalIP # ""
    THEN { [ip |-> externalIP, err |-> Nil, listErr |-> "none"] }
    ELSE { [ip |-> findFirstExternalNodeIP(list).ip, err |-> findFirstExternalNodeIP(list).err,
            listErr |-> list.err] : list \in NodeListResults }

\* default: of the provider switch
GetDomainLocate ==
    /\ gd.pc = "switch"
    /\ gd.provider \notin {MINIKUBE, MINISHIFT}
    /\ \E err \in ServiceGetErrors :
          IF err # Nil
          THEN /\ n' = Count("svcGet")
               /\ gd' = GetDomainReturn("", err)
          ELSE LET scanned == ScanLoadBalancer(svc.Ingress, gd.address)
               IN  IF svc.Type # ServiceTypeNodePort
                   THEN /\ n' = Count("svcGet")
                        /\ gd' = [gd EXCEPT !.pc = AfterSwitch(gd.provider),
                                            !.address = scanned, !.located = scanned]
                   ELSE \E ext \in ExternalIPResults(gd.externalIP) :
                           LET a == IF ext.ip # ""
                                    THEN NodePortAddress(svc.Ports, ext.ip, scanned)
                                    ELSE scanned
                           IN  /\ n' = [n EXCEPT !.svcGet = Inc(@),
                                                 !.nodeList = IF ext.listErr = "none"
                                                              THEN @ ELSE Inc(@)]
                               /\ gd' = IF ext.err # Nil
                                        THEN [gd EXCEPT !.pc = "returned", !.retDomain = "",
                                                 !.listErr = ext.listErr,
                                                 !.retErr = Wrap("no externalIP specified and failed to find a Node externalIP probably due to RBAC", ext.err)]
                                        ELSE [gd EXCEPT !.pc = AfterSwitch(gd.provider),
                                                        !.externalIP = ext.ip,
                                                        !.listErr = ext.listErr,
                                                        !.address = a, !.located = a]
    /\ UNCHANGED <<o, clusterVars, callerVars, runs>>

\* mutant: batch mode is not looked at before the confirmation loop
GetDomainAWSPromptsInBatch ==
    /\ gd.pc = "aws"
    /\ IF gd.domain # ""
       THEN /\ n' = Count("register")
            /\ \E err \in {Nil, "RegisterFailed"} : gd' = GetDomainReturn(gd.domain, err)
       ELSE /\ n' = n
            /\ \E inCluster \in BOOLEAN, interpret \in BOOLEAN :
                  LET read == [gd EXCEPT !.envRead = TRUE, !.inCluster = inCluster,
                                         !.interpret = interpret]
                  IN  gd' = IF inCluster \/ interpret
                            THEN [read EXCEPT !.pc = "resolve"]
                            ELSE [read EXCEPT !.pc = "confirm"]
    /\ UNCHANGED <<o, clusterVars, callerVars, runs>>

\* if provider == cloud.AWS || provider == cloud.EKS, up to the for loop
GetDomainAWS ==
    /\ gd.pc = "aws"
    /\ IF gd.domain # ""
       THEN /\ n' = Count("register")
            /\ \E err \in {Nil, "RegisterFailed"} : gd' = GetDomainReturn(gd.domain, err)
       ELSE /\ n' = n
            /\ \E inCluster \in BOOLEAN, interpret \in BOOLEAN :
                  LET read == [gd EXCEPT !.envRead = TRUE, !.inCluster = inCluster,
                                         !.interpret = interpret]
                  IN  gd' = IF inCluster \/ interpret
                            THEN [read EXCEPT !.pc = "resolve"]
                            ELSE IF o.BatchMode
                            THEN [read EXCEPT !.pc = "returned", !.retDomain = "",
                                              !.retErr = "MissingDomain"]
                            ELSE [read EXCEPT !.pc = "confirm"]
    /\ UNCHANGED <<o, clusterVars, callerVars, runs>>

\* the head of the for loop of the AWS branch: util.Confirm("Would you like to
\* register a wildcard DNS ALIAS ...")
GetDomainAWSConfirm ==
    /\ gd.pc = "confirm"
    /\ n' = [n EXCEPT !.confirm = Inc(@)]
    /\ \E answer \in {"error", "yes", "no"} :
          gd' = IF answer = "error" THEN GetDomainReturn("", "ConfirmFailed")
                ELSE IF answer = "yes" THEN [gd EXCEPT !.pc = "custom"]
                ELSE [gd EXCEPT !.pc = "resolve"]
    /\ UNCHANGED <<o, clusterVars, callerVars, runs>>

\* the body of the for loop after a yes: survey.AskOne(prompt, &customDomain, ...);
\* an empty customDomain goes round the loop again
GetDomainAWSCustomDomain ==
    /\ gd.pc = "custom"
    /\ \E customDomain \in {"", CustomDomain} :
          IF customDomain # ""
          THEN /\ n' = [n EXCEPT !.ask = Inc(@), !.register = Inc(@)]
               /\ \E err \in {Nil, "RegisterFailed"} :
                     gd' = GetDomainReturn(customDomain, err)
          ELSE /\ n' = [n EXCEPT !.ask = Inc(@)]
               /\ gd' = [gd EXCEPT !.pc = "confirm"]
    /\ UNCHANGED <<o, clusterVars, callerVars, runs>>

\* what iks.GetClusterName and iks.GetKubeClusterRegion can answer
IKSAnswers(value) ==
    { [value |-> value, err |-> Nil], [value |-> "", err |-> Nil],
      [value |-> "", err |-> "LookupFailed"] }

\* if provider == cloud.IKS
GetDomainIKS ==
    /\ gd.pc = "iks"
    /\ n' = n
    /\ IF gd.domain # ""
       THEN gd' = GetDomainReturn(gd.domain, Nil)
       ELSE \E name \in IKSAnswers("mycluster"), region \in IKSAnswers("us-south") :
               \* clusterName, err := ...; clusterRegion, err := ...: the second err stands
               LET err == region.err
               IN  gd' = IF err = Nil /\ name.value # "" /\ region.value # ""
                         THEN GetDomainReturn(name.value \o "." \o region.value \o IKSSuffix, Nil)
                         ELSE IF err = Nil
                         THEN [gd EXCEPT !.pc = "panic"]     \* err.Error() of a nil error
                         ELSE [gd EXCEPT !.pc = "resolve"]
    /\ UNCHANGED <<o, clusterVars, callerVars, runs>>

\* mutant: the suffix test is inverted
MagicDomainInverted(address, defaultDomain) ==
    IF HasSuffix(address, AmazonSuffix) THEN address \o NipSuffix ELSE defaultDomain

\* fmt.Sprintf("%s.nip.io", address), unless the address has the Amazon suffix
MagicDomain(address, defaultDomain) ==
    IF ~HasSuffix(address, AmazonSuffix) THEN address \o NipSuffix ELSE defaultDomain

\* mutant: the confirmation before the lookup is asked in batch mode too
GetDomainResolveAsksInBatch ==
    /\ gd.pc = "resolve"
    /\ IF gd.address # "" /\ ~gd.nodePort
       THEN IF IsIP(gd.address)
            THEN /\ n' = n
                 /\ gd' = [gd EXCEPT !.pc = "final",
                                     !.defaultDomain = MagicDomain(gd.address, gd.address)]
            ELSE /\ n' = [n EXCEPT !.confirm = Inc(@)]
                 /\ \E answer \in {"error", "yes", "no"} :
                       gd' = IF answer = "error" THEN GetDomainReturn("", "ConfirmFailed")
                             ELSE IF answer = "yes"
                             THEN [gd EXCEPT !.pc = "lookup", !.defaultDomain = gd.address]
                             ELSE [gd EXCEPT !.pc = "final", !.defaultDomain = gd.address]
       ELSE /\ n' = n
            /\ gd' = [gd EXCEPT !.pc = "final", !.defaultDomain = gd.address]
    /\ UNCHANGED <<o, clusterVars, callerVars, runs>>

\* mutant: the nodePort flag is not looked at
GetDomainResolveIgnoresNodePort ==
    /\ gd.pc = "resolve"
    /\ IF gd.address # ""
       THEN IF IsIP(gd.address)
            THEN /\ n' = n
                 /\ gd' = [gd EXCEPT !.pc = "final",
                                     !.defaultDomain = MagicDomain(gd.address, gd.address)]
            ELSE IF o.BatchMode
            THEN /\ n' = n
                 /\ gd' = [gd EXCEPT !.pc = "lookup", !.defaultDomain = gd.address]
            ELSE /\ n' = [n EXCEPT !.confirm = Inc(@)]
                 /\ \E answer \in {"error", "yes", "no"} :
                       gd' = IF answer = "error" THEN GetDomainReturn("", "ConfirmFailed")
                             ELSE IF answer = "yes"
                             THEN [gd EXCEPT !.pc = "lookup", !.defaultDomain = gd.address]
                             ELSE [gd EXCEPT !.pc = "final", !.defaultDomain = gd.address]
       ELSE /\ n' = n
            /\ gd' = [gd EXCEPT !.pc = "final", !.defaultDomain = gd.address]
    /\ UNCHANGED <<o, clusterVars, callerVars, runs>>

\* if address != "" && !nodePort, up to the call of RetryQuiet
GetDomainResolve ==
    /\ gd.pc = "resolve"
    /\ IF gd.address # "" /\ ~gd.nodePort
       THEN IF IsIP(gd.address)
            THEN /\ n' = n
                 /\ gd' = [gd EXCEPT !.pc = "final",
                                     !.defaultDomain = MagicDomain(gd.address, gd.address)]
            ELSE IF o.BatchMode
            THEN /\ n' = n
                 /\ gd' = [gd EXCEPT !.pc = "lookup", !.defaultDomain = gd.address]
            ELSE /\ n' = [n EXCEPT !.confirm = Inc(@)]
                 /\ \E answer \in {"error", "yes", "no"} :
                       gd' = IF answer = "error" THEN GetDomainReturn("", "ConfirmFailed")
                             ELSE IF answer = "yes"
                             THEN [gd EXCEPT !.pc = "lookup", !.defaultDomain = gd.address]
                             ELSE [gd EXCEPT !.pc = "final", !.defaultDomain = gd.address]
       ELSE /\ n' = n
            /\ gd' = [gd EXCEPT !.pc = "final", !.defaultDomain = gd.address]
    /\ UNCHANGED <<o, clusterVars, callerVars, runs>>

\* what net.LookupIP can answer
LookupResults ==
    { [ips |-> <<>>, err |-> "no such host"],
      [ips |-> <<LoopbackIP>>, err |-> Nil],
      [ips |-> <<LoopbackIP, ResolvedIP>>, err |-> Nil],
      [ips |-> <<LoopbackIP, ResolvedIP, SecondIP>>, err |-> Nil] }

\* mutant: the loop over the answer does not stop at the first usable IP
RECURSIVE LastUsableIP(_)
LastUsableIP(ips) ==
    IF ips = <<>> THEN ""
    ELSE IF LastUsableIP(Tail(ips)) # "" THEN LastUsableIP(Tail(ips))
    ELSE IF Head(ips) # "" /\ ~IsLoopback(Head(ips)) THEN Head(ips)
    ELSE ""

\* for _, ip := range ips { ... } of the lookup function f
RECURSIVE FirstUsableIP(_)
FirstUsableIP(ips) ==
    IF ips = <<>> THEN ""
    ELSE IF Head(ips) # "" /\ ~IsLoopback(Head(ips)) THEN Head(ips)
    ELSE FirstUsableIP(Tail(ips))

\* mutant: one attempt more before giving up
RetryQuietGivesUpLate(tries) == tries > LookupAttempts

\* RetryQuiet(attempts, sleep, f) gives up after the call that makes `attempts`
RetryQuietGivesUp(tries) == tries >= LookupAttempts

\* mutant: giving up leaves the magic domain on, made of the hostname
GetDomainLookupWrapsHostname ==
    /\ gd.pc = "lookup"
    /\ n' = n
    /\ \E answer \in LookupResults :
          LET addressIP == IF answer.err = Nil THEN FirstUsableIP(answer.ips) ELSE ""
          IN  gd' = IF addressIP # ""
                    THEN [gd EXCEPT !.pc = "final", !.tries = @ + 1, !.resolved = TRUE,
                                    !.address = addressIP,
                                    !.defaultDomain = MagicDomain(addressIP, gd.defaultDomain)]
                    ELSE IF RetryQuietGivesUp(gd.tries + 1)
                    THEN [gd EXCEPT !.pc = "final", !.tries = @ + 1,
                                    !.defaultDomain = gd.address \o NipSuffix]
                    ELSE [gd EXCEPT !.tries = @ + 1]
    /\ UNCHANGED <<o, clusterVars, callerVars, runs>>

\* one attempt of o.RetryQuiet(5*6, time.Second*10, f), and what follows the last
GetDomainLookup ==
    /\ gd.pc = "lookup"
    /\ n' = n
    /\ \E answer \in LookupResults :
          LET addressIP == IF answer.err = Nil THEN FirstUsableIP(answer.ips) ELSE ""
          IN  gd' = IF addressIP # ""
                    THEN [gd EXCEPT !.pc = "final", !.tries = @ + 1, !.resolved = TRUE,
                                    !.address = addressIP,
                                    !.defaultDomain = MagicDomain(addressIP, gd.defaultDomain)]
                    ELSE IF RetryQuietGivesUp(gd.tries + 1)
                    THEN [gd EXCEPT !.pc = "final", !.tries = @ + 1]
                    ELSE [gd EXCEPT !.tries = @ + 1]
    /\ UNCHANGED <<o, clusterVars, callerVars, runs>>

\* mutant: an empty answer of the prompt is returned as it is
GetDomainFinalKeepsEmptyAnswer ==
    /\ gd.pc = "final"
    /\ IF gd.domain = ""
       THEN IF o.BatchMode
            THEN /\ n' = n
                 /\ gd' = GetDomainReturn(gd.defaultDomain, Nil)
            ELSE /\ n' = [n EXCEPT !.ask = Inc(@)]
                 /\ \E answer \in {"", gd.defaultDomain, CustomDomain} :
                       gd' = GetDomainReturn(answer, Nil)
       ELSE /\ n' = n
            /\ gd' = GetDomainReturn(gd.domain, Nil)
    /\ UNCHANGED <<o, clusterVars, callerVars, runs>>

\* mutant: the default domain is returned in place of an explicit one
GetDomainFinalPrefersDefault ==
    /\ gd.pc = "final"
    /\ IF gd.domain = ""
       THEN IF o.BatchMode
            THEN /\ n' = n
                 /\ gd' = GetDomainReturn(gd.defaultDomain, Nil)
            ELSE /\ n' = [n EXCEPT !.ask = Inc(@)]
                 /\ \E answer \in {"", gd.defaultDomain, CustomDomain} :
                       gd' = GetDomainReturn(IF answer = "" THEN gd.defaultDomain ELSE answer, Nil)
       ELSE /\ n' = n
            /\ gd' = GetDomainReturn(gd.defaultDomain, Nil)
    /\ UNCHANGED <<o, clusterVars, callerVars, runs>>

\* if domain == "" { ... } else { ... }; return domain, nil
GetDomainFinal ==
    /\ gd.pc = "final"
    /\ IF gd.domain = ""
       THEN IF o.BatchMode
            THEN /\ n' = n
                 /\ gd' = GetDomainReturn(gd.defaultDomain, Nil)
            ELSE /\ n' = [n EXCEPT !.ask = Inc(@)]
                 /\ \E answer \in {"", gd.defaultDomain, CustomDomain} :
                       gd' = GetDomainReturn(IF answer = "" THEN gd.defaultDomain ELSE answer, Nil)
       ELSE /\ n' = n
            /\ gd' = GetDomainReturn(gd.domain, Nil)
    /\ UNCHANGED <<o, clusterVars, callerVars, runs>>

GetDomain ==
    \/ GetDomainLocalDev
    \/ GetDomainLocate
    \/ GetDomainAWS
    \/ GetDomainAWSConfirm
    \/ GetDomainAWSCustomDomain
    \/ GetDomainIKS
    \/ GetDomainResolve
    \/ GetDomainLookup
    \/ GetDomainFinal

(***************************************************************************)
(* GetDomain called on its own, as TestDomain and the other commands call  *)
(* it: any provider, explicit domain, external IP, nodePort flag and mode. *)
(***************************************************************************)
NoRequirements ==
    [ Cluster |-> [Provider |-> "", Registry |-> "", Namespace |-> ""],
      Ingress |-> [ Domain |-> "", Namespace |-> "", Service |-> "", Kind |-> "",
                    ServiceType |-> "", ExternalIP |-> "",
                    TLS |-> [Enabled |-> FALSE, Email |-> ""] ] ]
NoWait ==
    [ pc |-> "idle", loggedWait |-> FALSE, elapsed |-> 0, probes |-> 0,
      hasHost |-> FALSE, err |-> Nil ]
NoResult == [entry |-> "GetDomain", discover |-> "none", run |-> "none"]

\* the concurrent calls of Run on one directory, none of them started
Callers == {"first", "second"}
NoRuns ==
    [ c \in Callers |-> [ pc |-> "idle", requirements |-> NoRequirements,
                          firstTime |-> FALSE, err |-> "none" ] ]

\* the clusters whose service is read: every service, and every node list for a
\* NodePort service
RichClusters ==
    { c \in [svc : Services, nodes : NodeLists] :
        c.svc.Type # ServiceTypeNodePort => c.nodes = <<>> }

\* one cluster for each kind of located address: none, an IP, a hostname, an
\* Amazon hostname, an ip:port pair, and no service at all
SmallClusters ==
    { [svc |-> NoService, nodes |-> <<>>] }
    \cup { [svc |-> [exists |-> TRUE, Type |-> ServiceTypeLoadBalancer,
                     Ingress |-> i, Ports |-> <<>>], nodes |-> <<>>] :
             i \in SeqsUpTo(LoadBalancerEntries \ {[IP |-> SecondIP, Hostname |-> HostName]}, 1) }
    \cup { [svc |-> [exists |-> TRUE, Type |-> ServiceTypeNodePort, Ingress |-> <<>>,
                     Ports |-> <<[Name |-> "http", NodePort |-> 30123]>>],
            nodes |-> <<NodeWithExternal>>] }

\* The full range of services and node lists is drawn for the batch call without
\* an explicit domain; the other modes get one cluster per kind of address.  A
\* local-dev provider reads no service, an external-IP override no node list.
InitGetDomain ==
    /\ \E batch \in BOOLEAN, dom \in {"", CustomDomain}, provider \in Providers,
          externalIP \in {"", ExternalIPOverride}, nodePort \in BOOLEAN,
          c \in RichClusters \cup SmallClusters :
          /\ c \in SmallClusters \/ (batch /\ dom = "")
          /\ provider \in {MINIKUBE, MINISHIFT} => c.svc = NoService
          /\ externalIP # "" => c.nodes \in {<<>>, <<NodeWithExternal>>}
          /\ o = [ BatchMode |-> batch, Provider |-> "", IngressNamespace |-> "nginx",
                   IngressService |-> "nginx-ingress-controller" ]
          /\ svc = c.svc
          /\ nodes = c.nodes
          /\ gd = GetDomainCall(dom, provider, externalIP, nodePort)
    /\ n = ZeroCounts
    /\ pc = "GetDomain"
    /\ requirements = NoRequirements
    /\ appsConfig = <<>>
    /\ domain = ""
    /\ wait = NoWait
    /\ result = NoResult
    /\ saved = NoRequirements
    /\ runs = NoRuns

SpecGetDomain == InitGetDomain /\ [][GetDomain]_vars

(***************************************************************************)
(* findDefaultIngressValues.                                               *)
(***************************************************************************)
\* package config
IngressTypeIstio == "istio"
IngressTypeIngress == "ingress"

istioIngressValues == [Namespace |-> "istio-system", Service |-> "istio-ingressgateway"]
nginxIngressValues == [Namespace |-> "nginx", Service |-> "nginx-ingress-controller"]

\* for _, app := range appsConfig.Apps { if strings.HasSuffix(app.Name, "/istio") ... }
RECURSIVE HasIstioApp(_)
HasIstioApp(apps) ==
    IF apps = <<>> THEN FALSE
    ELSE IF HasSuffix(Head(apps), "/istio") THEN TRUE
    ELSE HasIstioApp(Tail(apps))

\* mutant: the apps are looked at before the kind "ingress"
findDefaultIngressValuesAppsFirst(reqs, apps) ==
    IF reqs.Ingress.Kind = IngressTypeIstio THEN istioIngressValues
    ELSE IF HasIstioApp(apps) THEN istioIngressValues
    ELSE nginxIngressValues

findDefaultIngressValues(reqs, apps) ==
    IF reqs.Ingress.Kind = IngressTypeIstio THEN istioIngressValues
    ELSE IF reqs.Ingress.Kind = IngressTypeIngress THEN nginxIngressValues
    ELSE IF HasIstioApp(apps) THEN istioIngressValues
    ELSE nginxIngressValues

(***************************************************************************)
(* discoverIngressDomain, step by step.  pc is the position:               *)
(* "discoverIngressDomain" (entered), "resolve", "GetDomain1", "wait",     *)
(* "GetDomain2", "check", "registry", "save"; then back in Run, or "done". *)
(***************************************************************************)
ServiceName == o.IngressNamespace \o "/" \o o.IngressService

GettingDomainError(cause) ==
    Wrap("getting a domain for ingress service " \o ServiceName, cause)

\* return err / return nil of discoverIngressDomain
DiscoverReturn(err) ==
    /\ result' = [result EXCEPT !.discover = err]
    /\ pc' = IF result.entry = "Run" THEN "discovered" ELSE "done"

\* mutant: the cluster namespace is defaulted before anything else is done
DiscoverBeginDefaultsNamespace ==
    /\ pc = "discoverIngressDomain"
    /\ n' = Count("kubeClient")
    /\ requirements' = IF requirements.Cluster.Namespace = ""
                       THEN [requirements EXCEPT !.Cluster.Namespace = "jx"]
                       ELSE requirements
    /\ \E err \in {Nil, "no kube config"} :
          IF err # Nil THEN DiscoverReturn(Wrap("getting the kubernetes client", err))
          ELSE IF requirements.Ingress.Domain # "" THEN DiscoverReturn(Nil)
          ELSE pc' = "resolve" /\ result' = result
    /\ UNCHANGED <<o, clusterVars, gd, appsConfig, domain, wait, saved, runs>>

\* client, err := o.KubeClient() ... if requirements.Ingress.Domain != "" { return nil }
DiscoverBegin ==
    /\ pc = "discoverIngressDomain"
    /\ n' = Count("kubeClient")
    /\ \E err \in {Nil, "no kube config"} :
          IF err # Nil THEN DiscoverReturn(Wrap("getting the kubernetes client", err))
          ELSE IF requirements.Ingress.Domain # "" THEN DiscoverReturn(Nil)
          ELSE pc' = "resolve" /\ result' = result
    /\ UNCHANGED <<o, clusterVars, gd, requirements, appsConfig, domain, wait, saved, runs>>

\* if o.Provider == "" { o.Provider = requirements.Cluster.Provider }
ResolveProvider(opts, reqs) ==
    IF opts.Provider = "" THEN reqs.Cluster.Provider ELSE opts.Provider

\* mutant: the namespace of the requirements goes before the flag
ResolveNamespaceRequirementsFirst(opts, reqs, apps) ==
    IF reqs.Ingress.Namespace # "" THEN reqs.Ingress.Namespace
    ELSE IF opts.IngressNamespace # "" THEN opts.IngressNamespace
    ELSE findDefaultIngressValues(reqs, apps).Namespace

\* o.IngressNamespace: the flag, else the requirements, else the default
ResolveNamespace(opts, reqs, apps) ==
    IF opts.IngressNamespace # "" THEN opts.IngressNamespace
    ELSE IF reqs.Ingress.Namespace # "" THEN reqs.Ingress.Namespace
    ELSE findDefaultIngressValues(reqs, apps).Namespace

\* mutant: the service is left empty when neither the flag nor the requirements name it
ResolveServiceWithoutDefault(opts, reqs, apps) ==
    IF opts.IngressService # "" THEN opts.IngressService
    ELSE reqs.Ingress.Service

\* o.IngressService: the flag, else the requirements, else the default
ResolveService(opts, reqs, apps) ==
    IF opts.IngressService # "" THEN opts.IngressService
    ELSE IF reqs.Ingress.Service # "" THEN reqs.Ingress.Service
    ELSE findDefaultIngressValues(reqs, apps).Service

\* the options resolved, and the first call of GetDomain
DiscoverResolve ==
    /\ pc = "resolve"
    /\ o' = [o EXCEPT !.Provider = ResolveProvider(o, requirements),
                      !.IngressNamespace = ResolveNamespace(o, requirements, appsConfig),
                      !.IngressService = ResolveService(o, requirements, appsConfig)]
    /\ gd' = GetDomainCall("", o'.Provider, requirements.Ingress.ExternalIP,
                           requirements.Ingress.ServiceType = "NodePort")
    /\ n' = Count("getDomain")
    /\ pc' = "GetDomain1"
    /\ UNCHANGED <<clusterVars, requirements, appsConfig, domain, wait, result, saved, runs>>

\* mutant: the poll is started whatever the first GetDomain returned
ShouldWaitAlways(dom) == TRUE

\* if domain == "" { hasHost, err := o.waitForIngressControllerHost(...) }
ShouldWait(dom) == dom = ""

\* mutant: a NotFound of the first GetDomain is taken as "no domain yet"
DiscoverLocatedWaitsForService ==
    /\ pc = "GetDomain1"
    /\ gd.pc \in {"returned", "panic"}
    /\ gd' = NoCall
    /\ IF gd.pc = "panic"
       THEN /\ pc' = "panic"
            /\ UNCHANGED <<domain, result, wait, n>>
       ELSE IF gd.retErr \notin {Nil, "NotFound"}
       THEN /\ DiscoverReturn(GettingDomainError(gd.retErr))
            /\ UNCHANGED <<domain, wait, n>>
       ELSE /\ domain' = gd.retDomain
            /\ result' = result
            /\ IF ShouldWait(gd.retDomain)
               THEN /\ pc' = "wait"
                    /\ wait' = [NoWait EXCEPT !.pc = "begin"]
                    /\ n' = Count("poll")
               ELSE /\ pc' = "check"
                    /\ UNCHANGED <<wait, n>>
    /\ UNCHANGED <<o, clusterVars, requirements, appsConfig, saved, runs>>

\* the first GetDomain has ended: if err != nil { return ... }; if domain == "" { wait }
DiscoverLocated ==
    /\ pc = "GetDomain1"
    /\ gd.pc \in {"returned", "panic"}
    /\ gd' = NoCall
    /\ IF gd.pc = "panic"
       THEN /\ pc' = "panic"
            /\ UNCHANGED <<domain, result, wait, n>>
       ELSE IF gd.retErr # Nil
       THEN /\ DiscoverReturn(GettingDomainError(gd.retErr))
            /\ UNCHANGED <<domain, wait, n>>
       ELSE /\ domain' = gd.retDomain
            /\ result' = result
            /\ IF ShouldWait(gd.retDomain)
               THEN /\ pc' = "wait"
                    /\ wait' = [NoWait EXCEPT !.pc = "begin"]
                    /\ n' = Count("poll")
               ELSE /\ pc' = "check"
                    /\ UNCHANGED <<wait, n>>
    /\ UNCHANGED <<o, clusterVars, requirements, appsConfig, saved, runs>>

(***************************************************************************)
(* waitForIngressControllerHost.  wait.pc is "begin", "probe" (about to    *)
(* call fn) or "returned".  wait.elapsed is the time slept so far.         *)
(***************************************************************************)
WaitReturn(hasHost, err) ==
    [wait EXCEPT !.pc = "returned", !.hasHost = hasHost, !.err = err]

\* up to the call of RetryUntilTrueOrTimeout
WaitBegin ==
    /\ pc = "wait"
    /\ wait.pc = "begin"
    /\ IF o.IngressService = "" \/ o.IngressNamespace = ""
       THEN /\ wait' = WaitReturn(FALSE, Nil)
            /\ n' = n
       ELSE /\ n' = Count("svcGet")
            /\ \E err \in ServiceGetErrors :
                  wait' = IF err # Nil THEN WaitReturn(FALSE, err)
                          ELSE [wait EXCEPT !.pc = "probe"]
    /\ UNCHANGED <<o, clusterVars, gd, pc, requirements, appsConfig, domain, result, saved, runs>>

\* for _, lb := range svc.Status.LoadBalancer.Ingress { if lb.Hostname != "" || lb.IP != "" ... }
HasLoadBalancerHost(ingress) ==
    \E i \in 1..Len(ingress) : ingress[i].Hostname # "" \/ ingress[i].IP # ""

\* mutant: the notice is logged on every probe that is not ready
NoticeOnEveryProbe(loggedWait, notices) == Inc(notices)

\* if !loggedWait { loggedWait = true; log.Logger().Infof("waiting for external Host ...") }
Notice(loggedWait, notices) == IF loggedWait THEN notices ELSE Inc(notices)

\* mutant: the timeout is noticed one interval late
RetryUntilTrueOrTimeoutLate(w) ==
    IF w.elapsed > PollTimeoutSeconds
    THEN [w EXCEPT !.pc = "returned", !.hasHost = FALSE, !.err = "Timed out"]
    ELSE [w EXCEPT !.elapsed = @ + PollIntervalSeconds]

\* mutant: when the timeout has passed the poll starts over
RetryUntilTrueOrTimeoutRestarts(w) ==
    IF w.elapsed >= PollTimeoutSeconds
    THEN [w EXCEPT !.elapsed = 0, !.probes = 0]
    ELSE [w EXCEPT !.elapsed = @ + PollIntervalSeconds]

\* RetryUntilTrueOrTimeout after a call of fn that was neither done nor failed:
\* the timeout error once the timeout has passed, else a sleep of one interval
RetryUntilTrueOrTimeout(w) ==
    IF w.elapsed >= PollTimeoutSeconds
    THEN [w EXCEPT !.pc = "returned", !.hasHost = FALSE, !.err = "Timed out"]
    ELSE [w EXCEPT !.elapsed = @ + PollIntervalSeconds]

\* mutant: the probe is also satisfied by a node with an external address
WaitProbeSeesNodes ==
    /\ pc = "wait"
    /\ wait.pc = "probe"
    /\ LET called == [wait EXCEPT !.probes = @ + 1]
       IN  \E err \in ServiceGetErrors :
              IF err # Nil
              THEN /\ wait' = [called EXCEPT !.pc = "returned", !.hasHost = FALSE, !.err = err]
                   /\ n' = Count("svcGet")
              ELSE IF HasLoadBalancerHost(svc.Ingress) \/ FirstExternalNode(nodes) # ""
              THEN /\ wait' = [called EXCEPT !.pc = "returned", !.hasHost = TRUE, !.err = Nil]
                   /\ n' = Count("svcGet")
              ELSE /\ n' = [n EXCEPT !.svcGet = Inc(@),
                                     !.notice = Notice(wait.loggedWait, @)]
                   /\ wait' = RetryUntilTrueOrTimeout([called EXCEPT !.loggedWait = TRUE])
    /\ UNCHANGED <<o, clusterVars, gd, pc, requirements, appsConfig, domain, result, saved, runs>>

\* One call of fn by RetryUntilTrueOrTimeout(time.Minute*5, time.Second*3, fn),
\* and the return of waitForIngressControllerHost when the poll ends with it.
WaitProbe ==
    /\ pc = "wait"
    /\ wait.pc = "probe"
    /\ LET called == [wait EXCEPT !.probes = @ + 1]
       IN  \E err \in ServiceGetErrors :
              IF err # Nil
              THEN /\ wait' = [called EXCEPT !.pc = "returned", !.hasHost = FALSE, !.err = err]
                   /\ n' = Count("svcGet")
              ELSE IF HasLoadBalancerHost(svc.Ingress)
              THEN /\ wait' = [called EXCEPT !.pc = "returned", !.hasHost = TRUE, !.err = Nil]
                   /\ n' = Count("svcGet")
              ELSE /\ n' = [n EXCEPT !.svcGet = Inc(@),
                                     !.notice = Notice(wait.loggedWait, @)]
                   /\ wait' = RetryUntilTrueOrTimeout([called EXCEPT !.loggedWait = TRUE])
    /\ UNCHANGED <<o, clusterVars, gd, pc, requirements, appsConfig, domain, result, saved, runs>>

\* mutant: the error of the poll is dropped and only hasHost is looked at
DiscoverWaitedIgnoringError ==
    /\ pc = "wait"
    /\ wait.pc = "returned"
    /\ wait' = NoWait
    /\ IF wait.hasHost \/ wait.err # Nil
       THEN /\ gd' = GetDomainCall("", o.Provider, requirements.Ingress.ExternalIP,
                                   requirements.Ingress.ServiceType = "NodePort")
            /\ n' = Count("getDomain")
            /\ pc' = "GetDomain2"
            /\ result' = result
       ELSE /\ pc' = "check"
            /\ UNCHANGED <<gd, n, result>>
    /\ UNCHANGED <<o, clusterVars, requirements, appsConfig, domain, saved, runs>>

\* the poll has ended: if err != nil { return ... }; if hasHost { GetDomain again }
DiscoverWaited ==
    /\ pc = "wait"
    /\ wait.pc = "returned"
    /\ wait' = NoWait
    /\ IF wait.err # Nil
       THEN /\ DiscoverReturn(GettingDomainError(wait.err))
            /\ UNCHANGED <<gd, n>>
       ELSE IF wait.hasHost
       THEN /\ gd' = GetDomainCall("", o.Provider, requirements.Ingress.ExternalIP,
                                   requirements.Ingress.ServiceType = "NodePort")
            /\ n' = Count("getDomain")
            /\ pc' = "GetDomain2"
            /\ result' = result
       ELSE /\ pc' = "check"
            /\ UNCHANGED <<gd, n, result>>
    /\ UNCHANGED <<o, clusterVars, requirements, appsConfig, domain, saved, runs>>

\* the second GetDomain has ended
DiscoverLocatedAgain ==
    /\ pc = "GetDomain2"
    /\ gd.pc \in {"returned", "panic"}
    /\ gd' = NoCall
    /\ IF gd.pc = "panic"
       THEN /\ pc' = "panic"
            /\ UNCHANGED <<domain, result>>
       ELSE IF gd.retErr # Nil
       THEN /\ DiscoverReturn(GettingDomainError(gd.retErr))
            /\ domain' = domain
       ELSE /\ domain' = gd.retDomain
            /\ pc' = "check"
            /\ result' = result
    /\ UNCHANGED <<o, clusterVars, n, requirements, appsConfig, wait, saved, runs>>

\* mutant: the resolved namespace and service are written to the requirements too
DiscoverCheckStoresService ==
    /\ pc = "check"
    /\ IF domain = ""
       THEN /\ DiscoverReturn("failed to discover domain for ingress service " \o ServiceName)
            /\ requirements' = requirements
       ELSE /\ requirements' = [requirements EXCEPT !.Ingress.Domain = domain,
                                                    !.Ingress.Namespace = o.IngressNamespace,
                                                    !.Ingress.Service = o.IngressService]
            /\ pc' = "registry"
            /\ result' = result
    /\ UNCHANGED <<o, clusterVars, gd, n, appsConfig, domain, wait, saved, runs>>

\* mutant: the domain is stored without the test for the empty string
DiscoverCheckUnguarded ==
    /\ pc = "check"
    /\ requirements' = [requirements EXCEPT !.Ingress.Domain = domain]
    /\ pc' = "registry"
    /\ result' = result
    /\ UNCHANGED <<o, clusterVars, gd, n, appsConfig, domain, wait, saved, runs>>

\* if domain == "" { return fmt.Errorf(...) }; requirements.Ingress.Domain = domain
DiscoverCheck ==
    /\ pc = "check"
    /\ IF domain = ""
       THEN /\ DiscoverReturn("failed to discover domain for ingress service " \o ServiceName)
            /\ requirements' = requirements
       ELSE /\ requirements' = [requirements EXCEPT !.Ingress.Domain = domain]
            /\ pc' = "registry"
            /\ result' = result
    /\ UNCHANGED <<o, clusterVars, gd, n, appsConfig, domain, wait, saved, runs>>

\* what Services(ns).Get("docker-registry") can answer: the ClusterIP, or an error
RegistryAnswers ==
    { [ClusterIP |-> "10.0.0.50", err |-> Nil], [ClusterIP |-> "", err |-> Nil],
      [ClusterIP |-> "", err |-> "NotFound"], [ClusterIP |-> "", err |-> "ServerError"] }

\* mutant: a docker-registry service that is not found fails the call as well
RegistryGetFailsOnAnyError(err) == err # Nil

\* if err != nil && !apierrors.IsNotFound(err) { return errors.Wrapf(...) }
RegistryGetFails(err) == err # Nil /\ err # "NotFound"

\* if requirements.Cluster.Provider == cloud.KUBERNETES && requirements.Cluster.Registry == ""
DiscoverRegistry ==
    /\ pc = "registry"
    /\ IF requirements.Cluster.Provider = KUBERNETES /\ requirements.Cluster.Registry = ""
       THEN LET ns == IF requirements.Cluster.Namespace = "" THEN "jx"
                      ELSE requirements.Cluster.Namespace
                named == [requirements EXCEPT !.Cluster.Namespace = ns]
            IN  /\ n' = Count("registryGet")
                /\ \E answer \in RegistryAnswers :
                      IF RegistryGetFails(answer.err)
                      THEN /\ requirements' = named
                           /\ DiscoverReturn(Wrap("failed to list services in namespace "
                                  \o ns \o " so we can default the registry host", answer.err))
                      ELSE /\ requirements' =
                                 IF answer.ClusterIP # ""
                                 THEN [named EXCEPT !.Cluster.Registry = answer.ClusterIP]
                                 ELSE named
                           /\ pc' = "save"
                           /\ result' = result
       ELSE /\ pc' = "save"
            /\ UNCHANGED <<n, requirements, result>>
    /\ UNCHANGED <<o, clusterVars, gd, appsConfig, domain, wait, saved, runs>>

\* mutant: a failed save is tried again
DiscoverSaveRetries ==
    /\ pc = "save"
    /\ n' = Count("save")
    /\ \E err \in {Nil, "disk full"} :
          IF err # Nil
          THEN UNCHANGED <<pc, result, saved>>
          ELSE /\ DiscoverReturn(Nil)
               /\ saved' = requirements
    /\ UNCHANGED <<o, clusterVars, gd, requirements, appsConfig, domain, wait, runs>>

\* err = requirements.SaveConfig(requirementsFileName)
DiscoverSave ==
    /\ pc = "save"
    /\ n' = Count("save")
    /\ \E err \in {Nil, "disk full"} :
          IF err # Nil
          THEN /\ DiscoverReturn(Wrap("failed to save changes to file: jx-requirements.yml", err))
               /\ saved' = saved
          ELSE /\ DiscoverReturn(Nil)
               /\ saved' = requirements
    /\ UNCHANGED <<o, clusterVars, gd, requirements, appsConfig, domain, wait, runs>>

discoverIngressDomain ==
    \/ DiscoverBegin
    \/ DiscoverResolve
    \/ DiscoverLocated
    \/ WaitBegin
    \/ WaitProbe
    \/ DiscoverWaited
    \/ DiscoverLocatedAgain
    \/ DiscoverCheck
    \/ DiscoverRegistry
    \/ DiscoverSave

(***************************************************************************)
(* The cluster while discoverIngressDomain waits: the load balancer of the *)
(* service is provisioned, a node gets its external address.               *)
(***************************************************************************)
ProvisionLoadBalancer ==
    /\ pc = "wait"
    /\ wait.pc = "probe"
    /\ svc.exists
    /\ svc.Ingress = <<>>
    /\ svc.Type = ServiceTypeLoadBalancer
    /\ \E entry \in { [IP |-> LoadBalancerIP, Hostname |-> ""],
                      [IP |-> "", Hostname |-> HostName] } :
          svc' = [svc EXCEPT !.Ingress = <<entry>>]
    /\ UNCHANGED <<o, nodes, gd, n, callerVars, runs>>

NodeGetsExternalAddress ==
    /\ pc = "wait"
    /\ wait.pc = "probe"
    /\ nodes = <<NodeInternalOnly>>
    /\ nodes' = <<NodeWithExternal>>
    /\ UNCHANGED <<o, svc, gd, n, callerVars, runs>>

\* the address is taken away again between the poll and the second GetDomain
ReleaseLoadBalancer ==
    /\ pc = "GetDomain2"
    /\ gd.pc = "switch"
    /\ svc.exists
    /\ svc.Ingress # <<>>
    /\ svc' = [svc EXCEPT !.Ingress = <<>>]
    /\ UNCHANGED <<o, nodes, gd, n, callerVars, runs>>

Cluster == ProvisionLoadBalancer \/ NodeGetsExternalAddress \/ ReleaseLoadBalancer

(***************************************************************************)
(* Run.  pc is "Run" (entered), "discovered" (discoverIngressDomain has    *)
(* returned), "tls", "RunSave", and "done".                                *)
(***************************************************************************)
RunReturn(err) ==
    /\ result' = [result EXCEPT !.run = err]
    /\ pc' = "done"

\* if requirements.Ingress.Domain == "" { appsConfig, _, err := config.LoadAppConfig(o.Dir) ... }
RunBegin ==
    /\ pc = "Run"
    /\ IF requirements.Ingress.Domain = ""
       THEN \E err \in {Nil, "no apps file"} :
               IF err # Nil THEN RunReturn(Wrap("failed to load apps", err))
               ELSE pc' = "discoverIngressDomain" /\ result' = result
       ELSE pc' = "tls" /\ result' = result
    /\ UNCHANGED <<o, clusterVars, gd, n, requirements, appsConfig, domain, wait, saved, runs>>

\* err = o.discoverIngressDomain(...); if err != nil { return errors.Wrapf(...) }
RunDiscovered ==
    /\ pc = "discovered"
    /\ IF result.discover # Nil
       THEN RunReturn(Wrap("failed to discover the Ingress domain", result.discover))
       ELSE pc' = "tls" /\ result' = result
    /\ UNCHANGED <<o, clusterVars, gd, n, requirements, appsConfig, domain, wait, saved, runs>>

\* IngressConfig.IsAutoDNSDomain of package config
IsAutoDNSDomain(ingress) ==
    \E suffix \in {".nip.io", ".xip.io", ".beesdns.com"} : HasSuffix(ingress.Domain, suffix)

\* mail.ParseAddress(email) succeeds: a local part, an @ and a domain
IsMailAddress(email) ==
    \E i \in 2..(Len(email) - 1) : Char(email, i) = "@"

\* mutant: only the mail address is checked when TLS is enabled
RunTLSAllowsAutoDNS ==
    /\ pc = "tls"
    /\ IF requirements.Ingress.TLS.Enabled
          /\ ~IsMailAddress(requirements.Ingress.TLS.Email)
       THEN RunReturn("You must provide a valid email address to enable TLS")
       ELSE pc' = "RunSave" /\ result' = result
    /\ UNCHANGED <<o, clusterVars, gd, n, requirements, appsConfig, domain, wait, saved, runs>>

\* if requirements.Ingress.TLS.Enabled { ... }
RunTLS ==
    /\ pc = "tls"
    /\ IF requirements.Ingress.TLS.Enabled /\ IsAutoDNSDomain(requirements.Ingress)
       THEN RunReturn("TLS is not supported with automated domains like "
                      \o requirements.Ingress.Domain
                      \o ", you will need to use a real domain you own")
       ELSE IF requirements.Ingress.TLS.Enabled
               /\ ~IsMailAddress(requirements.Ingress.TLS.Email)
       THEN RunReturn("You must provide a valid email address to enable TLS")
       ELSE pc' = "RunSave" /\ result' = result
    /\ UNCHANGED <<o, clusterVars, gd, n, requirements, appsConfig, domain, wait, saved, runs>>

\* return requirements.SaveConfig(requirementsFileName)
RunSave ==
    /\ pc = "RunSave"
    /\ n' = Count("save")
    /\ \E err \in {Nil, "disk full"} :
          /\ RunReturn(err)
          /\ saved' = IF err = Nil THEN requirements ELSE saved
    /\ UNCHANGED <<o, clusterVars, gd, requirements, appsConfig, domain, wait, runs>>

Run == RunBegin \/ RunDiscovered \/ RunTLS \/ RunSave

(***************************************************************************)
(* The command: Run on a loaded requirements file, or discoverIngressDomain *)
(* handed requirements whose domain is already set (Run calls it only with *)
(* an empty domain).                                                       *)
(***************************************************************************)
\* the flags and the ingress part of the requirements: the defaults, an istio
\* app, flags set, the provider flag set, TLS with and without a mail address
Settings ==
    LET base == [ Provider |-> "", IngressNamespace |-> "", IngressService |-> "",
                  Namespace |-> "", Service |-> "", Kind |-> "", Apps |-> <<>>,
                  TLS |-> [Enabled |-> FALSE, Email |-> ""] ]
    IN  { base,
          [base EXCEPT !.Apps = <<"jenkins-x/jx-app-sonarqube", "jx-labs/istio">>],
          [base EXCEPT !.IngressNamespace = "kube-system", !.Service = "traefik"],
          [base EXCEPT !.Provider = GKE],
          [base EXCEPT !.TLS = [Enabled |-> TRUE, Email |-> "admin@example.com"]],
          [base EXCEPT !.TLS = [Enabled |-> TRUE, Email |-> ""]] }

\* requirements.Cluster: the registry and the namespace vary for kubernetes
ClusterSettings ==
    { [Provider |-> p, Registry |-> "", Namespace |-> ""] :
        p \in {"", GKE, KUBERNETES, AWS, IKS, MINIKUBE} }
    \cup { [Provider |-> KUBERNETES, Registry |-> r, Namespace |-> ns] :
             r \in {"", "registry.example.com"}, ns \in {"", "jx-team"} }

\* the clusters of Run: one per kind of located address, and the NodePort service
\* whose nodes have no external address
RunClusters ==
    SmallClusters
    \cup { [svc |-> [exists |-> TRUE, Type |-> ServiceTypeNodePort, Ingress |-> <<>>,
                     Ports |-> <<[Name |-> "http", NodePort |-> 30123]>>],
            nodes |-> <<NodeInternalOnly>>] }

\* Every provider, cluster, service type, external IP and mode is drawn with the
\* default settings; the other settings are drawn in batch mode for gke and
\* kubernetes and a load-balancer service with and without an address.
Init ==
    /\ \E batch \in BOOLEAN, s \in Settings, cl \in ClusterSettings, c \in RunClusters,
          serviceType \in {"", "NodePort"}, externalIP \in {"", ExternalIPOverride},
          dom \in {"", CustomDomain}, entry \in {"Run", "discoverIngressDomain"} :
          /\ entry = "discoverIngressDomain" => dom # ""
          /\ \/ s.Provider = "" /\ s.IngressNamespace = "" /\ s.Apps = <<>> /\ ~s.TLS.Enabled
             \/ /\ batch /\ serviceType = "" /\ externalIP = ""
                /\ cl.Provider \in {GKE, KUBERNETES} /\ cl.Registry = "" /\ cl.Namespace = ""
                /\ c.svc.Type = ServiceTypeLoadBalancer
                /\ c.svc.Ingress \in {<<>>, <<[IP |-> LoadBalancerIP, Hostname |-> ""]>>}
          /\ o = [ BatchMode |-> batch, Provider |-> s.Provider,
                   IngressNamespace |-> s.IngressNamespace,
                   IngressService |-> s.IngressService ]
          /\ requirements =
                [ Cluster |-> cl,
                  Ingress |-> [ Domain |-> dom, Namespace |-> s.Namespace,
                                Service |-> s.Service, Kind |-> s.Kind,
                                ServiceType |-> serviceType, ExternalIP |-> externalIP,
                                TLS |-> s.TLS ] ]
          /\ appsConfig = s.Apps
          /\ svc = c.svc
          /\ nodes = c.nodes
          /\ pc = entry
          /\ result = [entry |-> entry, discover |-> "none", run |-> "none"]
          /\ saved = requirements
    /\ gd = NoCall
    /\ n = ZeroCounts
    /\ domain = ""
    /\ wait = NoWait
    /\ runs = NoRuns

(***************************************************************************)
(* The resolution of the inputs on its own (lines 165-192): every mix of   *)
(* flags, requirements, ingress kind and declared apps.                    *)
(***************************************************************************)
\* app.Name of the entries of the apps file
AppNames == {"jenkins-x/jx-app-sonarqube", "jx-labs/istio", "jx-labs/istio-extra", "istio"}

IngressKinds == {"", IngressTypeIstio, IngressTypeIngress, "none"}

InitResolve ==
    /\ \E batch \in BOOLEAN,
          flagProvider \in {"", GKE}, flagNamespace \in {"", "kube-system"},
          flagService \in {"", "traefik"},
          provider \in {"", KUBERNETES}, namespace \in {"", "ingress-ns"},
          service \in {"", "ingress-svc"}, kind \in IngressKinds,
          apps \in SeqsUpTo(AppNames, MaxApps),
          serviceType \in {"", "NodePort"}, externalIP \in {"", ExternalIPOverride} :
          /\ o = [ BatchMode |-> batch, Provider |-> flagProvider,
                   IngressNamespace |-> flagNamespace, IngressService |-> flagService ]
          /\ requirements =
                [ Cluster |-> [Provider |-> provider, Registry |-> "", Namespace |-> ""],
                  Ingress |-> [ Domain |-> "", Namespace |-> namespace, Service |-> service,
                                Kind |-> kind, ServiceType |-> serviceType,
                                ExternalIP |-> externalIP,
                                TLS |-> [Enabled |-> FALSE, Email |-> ""] ] ]
          /\ appsConfig = apps
          /\ saved = requirements
    /\ svc = NoService
    /\ nodes = <<>>
    /\ gd = NoCall
    /\ n = [ZeroCounts EXCEPT !.kubeClient = 1]
    /\ pc = "resolve"
    /\ domain = ""
    /\ wait = NoWait
    /\ result = [entry |-> "discoverIngressDomain", discover |-> "none", run |-> "none"]
    /\ runs = NoRuns

SpecResolve == InitResolve /\ [][DiscoverResolve]_vars

Next == Run \/ discoverIngressDomain \/ GetDomain \/ Cluster

Spec == Init /\ [][Next]_vars

\* The command, or GetDomain on its own, with a program that keeps running:
\* a call that can take a step takes one, each prompt is answered and each
\* sleep ends.  Nothing is assumed of the answers or of the cluster.
Program == Run \/ discoverIngressDomain \/ GetDomain

SpecLive == (Init \/ InitGetDomain) /\ [][Next]_vars /\ WF_vars(Program)

(***************************************************************************)
(* Two calls of Run on one requirements file, with no lock between them.   *)
(* Each call is followed from its load of the file to its return; a step   *)
(* is one access to the file or the cluster with what the call does of its *)
(* own before it.  The calls run in batch mode against a load-balancer     *)
(* service that reports IPs, and the cluster may give the service another  *)
(* IP while they run.  runs[c].pc is "Run", "loaded", "save", "tls", "done".*)
(***************************************************************************)
\* the domain discoverIngressDomain finds in batch mode for a service whose
\* load balancer reports IPs: the last IP with ".nip.io", or none
DiscoveredDomain(service) ==
    LET address == IF service.exists THEN ScanLoadBalancer(service.Ingress, "") ELSE ""
    IN  IF address = "" THEN "" ELSE MagicDomain(address, address)

\* return err / return nil of one of the calls
RaceReturn(c, err) == [runs EXCEPT ![c].pc = "done", ![c].err = err]

\* requirements, requirementsFileName, err := config.LoadRequirementsConfig(o.Dir)
RaceLoad ==
    \E c \in Callers :
       /\ runs[c].pc = "Run"
       /\ \E err \in {Nil, "unreadable"} :
             runs' = IF err # Nil
                     THEN RaceReturn(c, Wrap("failed to load Jenkins X requirements", err))
                     ELSE [runs EXCEPT ![c].pc = "loaded", ![c].requirements = saved,
                                       ![c].firstTime = (saved.Ingress.Domain = "")]
       /\ UNCHANGED <<o, svc, nodes, gd, n, pc, requirements, appsConfig, domain, wait,
                      result, saved>>

\* if requirements.Ingress.Domain == "" { ... discoverIngressDomain ... }, up to
\* requirements.Ingress.Domain = domain
RaceDiscover ==
    \E c \in Callers :
       /\ runs[c].pc = "loaded"
       /\ IF runs[c].requirements.Ingress.Domain # ""
          THEN runs' = [runs EXCEPT ![c].pc = "tls"]
          ELSE \E err \in {Nil, "ServerError"} :
                  runs' =
                     IF err # Nil
                     THEN RaceReturn(c, Wrap("failed to discover the Ingress domain", err))
                     ELSE IF DiscoveredDomain(svc) = ""
                     THEN RaceReturn(c, Wrap("failed to discover the Ingress domain",
                                             "failed to discover domain for ingress service"))
                     ELSE [runs EXCEPT ![c].pc = "save",
                                       ![c].requirements.Ingress.Domain = DiscoveredDomain(svc)]
       /\ UNCHANGED <<o, svc, nodes, gd, n, pc, requirements, appsConfig, domain, wait,
                      result, saved>>

\* mutant: a save does not overwrite a domain another call has written
RaceSaveKeepsFirst ==
    \E c \in Callers :
       /\ runs[c].pc = "save"
       /\ \E err \in {Nil, "disk full"} :
             IF err # Nil
             THEN /\ runs' = RaceReturn(c, Wrap("failed to discover the Ingress domain",
                                      Wrap("failed to save changes to file: jx-requirements.yml", err)))
                  /\ saved' = saved
             ELSE /\ runs' = [runs EXCEPT ![c].pc = "tls"]
                  /\ saved' = IF saved.Ingress.Domain = "" THEN runs[c].requirements
                              ELSE saved
       /\ UNCHANGED <<o, svc, nodes, gd, n, pc, requirements, appsConfig, domain, wait,
                      result>>

\* err = requirements.SaveConfig(requirementsFileName) of discoverIngressDomain
RaceSave ==
    \E c \in Callers :
       /\ runs[c].pc = "save"
       /\ \E err \in {Nil, "disk full"} :
             IF err # Nil
             THEN /\ runs' = RaceReturn(c, Wrap("failed to discover the Ingress domain",
                                      Wrap("failed to save changes to file: jx-requirements.yml", err)))
                  /\ saved' = saved
             ELSE /\ runs' = [runs EXCEPT ![c].pc = "tls"]
                  /\ saved' = runs[c].requirements
       /\ UNCHANGED <<o, svc, nodes, gd, n, pc, requirements, appsConfig, domain, wait,
                      result>>

\* if requirements.Ingress.TLS.Enabled { ... }; return requirements.SaveConfig(...)
RaceFinish ==
    \E c \in Callers :
       LET r == runs[c].requirements
       IN  /\ runs[c].pc = "tls"
           /\ IF r.Ingress.TLS.Enabled /\ IsAutoDNSDomain(r.Ingress)
              THEN /\ runs' = RaceReturn(c, "TLS is not supported with automated domains")
                   /\ saved' = saved
              ELSE IF r.Ingress.TLS.Enabled /\ ~IsMailAddress(r.Ingress.TLS.Email)
              THEN /\ runs' = RaceReturn(c, "You must provide a valid email address to enable TLS")
                   /\ saved' = saved
              ELSE \E err \in {Nil, "disk full"} :
                      /\ runs' = RaceReturn(c, err)
                      /\ saved' = IF err = Nil THEN r ELSE saved
           /\ UNCHANGED <<o, svc, nodes, gd, n, pc, requirements, appsConfig, domain, wait,
                          result>>

\* the cluster gives the service another IP while a call is running
Reprovision ==
    /\ \E c \in Callers : runs[c].pc # "done"
    /\ svc.exists
    /\ svc.Ingress \in {<<>>, <<[IP |-> LoadBalancerIP, Hostname |-> ""]>>}
    /\ \E ip \in {LoadBalancerIP, SecondIP} :
          /\ svc.Ingress # <<[IP |-> ip, Hostname |-> ""]>>
          /\ svc' = [svc EXCEPT !.Ingress = <<[IP |-> ip, Hostname |-> ""]>>]
    /\ UNCHANGED <<o, nodes, gd, n, callerVars, runs>>

\* the file holds no domain or a domain; TLS is off, or on with a usable address
InitRace ==
    /\ \E dom \in {"", CustomDomain}, provider \in {"", GKE},
          tls \in { [Enabled |-> FALSE, Email |-> ""],
                    [Enabled |-> TRUE, Email |-> "admin@example.com"] },
          ingress \in {<<>>, <<[IP |-> LoadBalancerIP, Hostname |-> ""]>>} :
          /\ saved = [NoRequirements EXCEPT !.Cluster.Provider = provider,
                                            !.Ingress.Domain = dom, !.Ingress.TLS = tls]
          /\ svc = [exists |-> TRUE, Type |-> ServiceTypeLoadBalancer,
                    Ingress |-> ingress, Ports |-> <<>>]
    /\ runs = [c \in Callers |-> [NoRuns[c] EXCEPT !.pc = "Run"]]
    /\ o = [ BatchMode |-> TRUE, Provider |-> "", IngressNamespace |-> "",
             IngressService |-> "" ]
    /\ nodes = <<>>
    /\ gd = NoCall
    /\ n = ZeroCounts
    /\ pc = "Run"
    /\ requirements = NoRequirements
    /\ appsConfig = <<>>
    /\ domain = ""
    /\ wait = NoWait
    /\ result = [entry |-> "Run", discover |-> "none", run |-> "none"]

Race == RaceLoad \/ RaceDiscover \/ RaceSave \/ RaceFinish \/ Reprovision

SpecRace == InitRace /\ [][Race]_vars

(***************************************************************************)
(* Properties.                                                             *)
(***************************************************************************)
GenericProviders == {"", GKE, KUBERNETES}

\* GetDomain has returned and its read of the service was answered
GetDomainAnswered == gd.pc = "returned" /\ gd.retErr # "ServerError"

\* the status of the load balancer reports ip: it is the IP of the last entry
\* that reports anything
ReportsIP(ingress, ip) ==
    \E i \in 1..Len(ingress) :
       /\ ingress[i].IP = ip
       /\ \A j \in (i + 1)..Len(ingress) : ingress[j].IP = "" /\ ingress[j].Hostname = ""

\* the node port of the service is port: the last of its ports that has one
HasNodePort(ports, port) ==
    \E k \in 1..Len(ports) :
       /\ ports[k].NodePort = port
       /\ \A j \in (k + 1)..Len(ports) : ports[j].NodePort = 0

\* address is the first non-empty address of type ExternalIP, in the order of the
\* nodes and of their addresses
IsFirstExternalAddress(items, address) ==
    \E i \in 1..Len(items) : \E j \in 1..Len(items[i]) :
       /\ items[i][j].Type = NodeExternalIP
       /\ items[i][j].Address = address
       /\ \A k \in 1..Len(items) : \A l \in 1..Len(items[k]) :
             (k < i \/ (k = i /\ l < j)) =>
                ~(items[k][l].Type = NodeExternalIP /\ items[k][l].Address # "")

PortText(port) == IF port = 30123 THEN "30123" ELSE "32443"

\* C1: whenever discoverIngressDomain returns nil, requirements.Ingress.Domain
\* is a non-empty string.
C1_NonEmptyOnSuccess ==
    result.discover = Nil => requirements.Ingress.Domain # ""

\* discoverIngressDomain has returned nil after the poll and a second GetDomain
C1_Witness ==
    /\ result.discover = Nil
    /\ n.getDomain = 2
    /\ requirements.Ingress.Domain = "35.205.151.95.nip.io"

\* C2 as stated: GetDomain never returns an empty domain together with a nil
\* error.
C2_NeverEmptyWithoutError ==
    (gd.pc = "returned" /\ gd.retErr = Nil) => gd.retDomain # ""

\* C2 amended: GetDomain returns an empty domain with a nil error only when no
\* explicit domain was given and no address was located, and in batch mode it
\* then does return the empty domain (except for iks, which has its own domain).
C2_EmptyOnlyWithoutAddress ==
    (gd.pc = "returned" /\ gd.retErr = Nil) =>
       /\ gd.retDomain = "" => (gd.args.domain = "" /\ gd.located = "")
       /\ (o.BatchMode /\ gd.args.domain = "" /\ gd.located = "" /\ gd.args.provider # IKS)
             => gd.retDomain = ""

\* the prompt of an interactive call was answered for a located address
C2_Witness ==
    /\ gd.pc = "returned"
    /\ gd.retErr = Nil
    /\ ~o.BatchMode
    /\ n.ask = 1
    /\ gd.args.domain = ""
    /\ gd.located = LoadBalancerIP
    /\ gd.retDomain = "35.205.151.95.nip.io"

\* C3 as stated: when requirements.Ingress.Domain is already set, a call of
\* discoverIngressDomain creates no client, reads no service, lists no nodes,
\* does not poll, leaves the domain as it is and returns no error.
C3_NoCallWhenDomainSet ==
    (result.entry = "discoverIngressDomain" /\ pc = "done") =>
       /\ n.kubeClient = 0
       /\ n.svcGet = 0
       /\ n.nodeList = 0
       /\ n.poll = 0
       /\ requirements.Ingress.Domain = CustomDomain
       /\ result.discover = Nil

\* C4: discoverIngressDomain calls GetDomain first; it polls only after that
\* call returned an empty domain and no error, and calls GetDomain a second
\* time only after the poll found a host; with the domain still empty it
\* returns the error that names namespace/service.  GetDomain is called at
\* most twice and the poll is started at most once.
C4_Sequence ==
    [][ /\ n'.getDomain # n.getDomain =>
             \/ n.getDomain = 0 /\ n.poll = 0 /\ pc = "resolve"
             \/ /\ n.getDomain = 1 /\ n.poll = 1
                /\ pc = "wait" /\ wait.pc = "returned" /\ wait.hasHost /\ wait.err = Nil
        /\ n'.poll # n.poll =>
             /\ n.poll = 0 /\ n.getDomain = 1
             /\ pc = "GetDomain1" /\ gd.pc = "returned"
             /\ gd.retErr = Nil /\ gd.retDomain = ""
        /\ n'.getDomain <= 2
        /\ n'.poll <= 1
        /\ wait'.err = "Timed out" => wait'.elapsed = 300
        /\ wait'.elapsed # wait.elapsed => wait'.elapsed \in {0, wait.elapsed + 3}
        /\ (pc = "check" /\ domain = "") =>
             /\ pc' \in {"discovered", "done"}
             /\ result'.discover = "failed to discover domain for ingress service "
                                      \o o.IngressNamespace \o "/" \o o.IngressService
             /\ requirements' = requirements
      ]_vars

\* both calls of GetDomain and the poll were made and the domain was still empty
C4_Witness ==
    /\ result.discover =
          "failed to discover domain for ingress service nginx/nginx-ingress-controller"
    /\ n.getDomain = 2
    /\ n.poll = 1

\* C5 as stated (in batch mode): with no explicit domain, a located address,
\* nodePort false and a generic provider the returned domain ends with .nip.io.
C5_AlwaysMagicSuffix ==
    ( /\ gd.pc = "returned" /\ gd.retErr = Nil /\ o.BatchMode
      /\ gd.args.domain = "" /\ gd.located # "" /\ ~gd.args.nodePort
      /\ gd.args.provider \in GenericProviders )
    => HasSuffix(gd.retDomain, NipSuffix)

\* C5 amended: in batch mode, with no explicit domain, a located address,
\* nodePort false and a generic provider, the returned domain ends with .nip.io
\* when the address is an IP literal or was resolved to an IP; an address that
\* could not be resolved is returned as it is, without the suffix.
C5_MagicSuffixWhenResolved ==
    ( /\ gd.pc = "returned" /\ gd.retErr = Nil /\ o.BatchMode
      /\ gd.args.domain = "" /\ gd.located # "" /\ ~gd.args.nodePort
      /\ gd.args.provider \in GenericProviders )
    => IF IsIP(gd.located) \/ gd.resolved
       THEN /\ HasSuffix(gd.retDomain, NipSuffix)
            /\ IsIP(SubSeq(gd.retDomain, 1, Len(gd.retDomain) - Len(NipSuffix)))
       ELSE gd.retDomain = gd.located /\ ~HasSuffix(gd.retDomain, NipSuffix)

\* a hostname was resolved and the domain is made of its IP
C5_Witness ==
    /\ gd.pc = "returned"
    /\ o.BatchMode
    /\ gd.args.provider = GKE
    /\ gd.located = HostName
    /\ gd.resolved
    /\ gd.retDomain = "52.1.2.3.nip.io"

\* C6 as stated: in batch mode, for aws or eks and no explicit domain, once the
\* environment has been read GetDomain returns the missing-domain error,
\* wherever it runs.
C6_AlwaysMissingDomain ==
    ( /\ gd.pc = "returned" /\ o.BatchMode /\ gd.envRead
      /\ gd.args.provider \in {AWS, EKS} /\ gd.args.domain = "" )
    => gd.retErr = "MissingDomain"

\* C6 amended: in batch mode, for aws or eks and no explicit domain, GetDomain
\* asks nothing; it returns the missing-domain error exactly when it runs
\* outside the cluster with JX_INTERPRET_PIPELINE not "true", and otherwise
\* returns the default domain of the located address with no error.
C6_MissingDomainOutsideCluster ==
    ( /\ gd.pc = "returned" /\ o.BatchMode /\ gd.envRead
      /\ gd.args.provider \in {AWS, EKS} /\ gd.args.domain = "" )
    => /\ n.confirm = 0
       /\ n.ask = 0
       /\ n.register = 0
       /\ IF ~gd.inCluster /\ ~gd.interpret
          THEN gd.retErr = "MissingDomain" /\ gd.retDomain = ""
          ELSE gd.retErr = Nil /\ gd.retDomain = gd.defaultDomain

\* the batch call for eks outside the cluster has returned the error
C6_Witness ==
    /\ gd.pc = "returned"
    /\ o.BatchMode
    /\ gd.args.provider = EKS
    /\ gd.envRead
    /\ ~gd.inCluster
    /\ ~gd.interpret
    /\ gd.located = AmazonHostName
    /\ gd.retErr = "MissingDomain"

\* C7: for a load-balancer service whose status reports the IP A, nodePort
\* false, batch mode, no explicit domain and a generic provider such as gke,
\* GetDomain returns A followed by .nip.io and no error.
C7_LoadBalancerIP ==
    \A A \in {LoadBalancerIP, SecondIP} :
       ( /\ GetDomainAnswered
         /\ svc.exists /\ svc.Type = ServiceTypeLoadBalancer
         /\ ReportsIP(svc.Ingress, A)
         /\ ~gd.args.nodePort /\ o.BatchMode /\ gd.args.domain = ""
         /\ gd.args.externalIP = ""
         /\ gd.args.provider \in GenericProviders )
       => gd.retErr = Nil /\ gd.retDomain = A \o ".nip.io"

\* the case of TestDomain: gke and the IP 35.205.151.95
C7_Witness ==
    /\ gd.pc = "returned"
    /\ gd.args.provider = GKE
    /\ svc.Ingress = << [IP |-> "35.205.151.95", Hostname |-> ""] >>
    /\ gd.retErr = Nil
    /\ gd.retDomain = "35.205.151.95.nip.io"

\* C8: for a NodePort service whose node port is P, no external IP given,
\* nodePort true, batch mode and provider kubernetes, once the nodes are listed
\* GetDomain returns E:P, E being the first address of type ExternalIP of the
\* nodes, whatever InternalIP addresses there are; no .nip.io is added.
C8_NodePortExternalAddress ==
    \A E \in {NodeExternalAddress, SecondIP} : \A P \in {30123, 32443} :
       ( /\ gd.pc = "returned" /\ gd.listErr = Nil
         /\ svc.exists /\ svc.Type = ServiceTypeNodePort
         /\ HasNodePort(svc.Ports, P)
         /\ IsFirstExternalAddress(nodes, E)
         /\ gd.args.externalIP = "" /\ gd.args.nodePort /\ o.BatchMode
         /\ gd.args.domain = "" /\ gd.args.provider = KUBERNETES )
       => /\ gd.retErr = Nil
          /\ gd.retDomain = E \o ":" \o PortText(P)
          /\ ~HasSuffix(gd.retDomain, NipSuffix)

\* the case of TestDomain: the node has an InternalIP and then an ExternalIP
C8_Witness ==
    /\ gd.pc = "returned"
    /\ gd.args.provider = KUBERNETES
    /\ gd.args.externalIP = ""
    /\ nodes = <<NodeWithExternal>>
    /\ n.nodeList = 1
    /\ gd.retDomain = "35.189.202.25:30123"

\* C9: for a NodePort service whose node port is P, an external IP X given to
\* GetDomain wins over the external address of the nodes: GetDomain returns
\* X:P and the nodes are not listed.
C9_ExternalIPOverride ==
    /\ (gd.pc # "idle" /\ gd.args.externalIP # "") => (n.nodeList = 0 /\ gd.listErr = "none")
    /\ \A P \in {30123, 32443} :
          ( /\ GetDomainAnswered
            /\ svc.exists /\ svc.Type = ServiceTypeNodePort
            /\ HasNodePort(svc.Ports, P)
            /\ gd.args.externalIP = ExternalIPOverride
            /\ gd.args.nodePort /\ o.BatchMode /\ gd.args.domain = ""
            /\ gd.args.provider \in GenericProviders )
          => gd.retErr = Nil /\ gd.retDomain = "1.2.3.4:" \o PortText(P)

\* the case of TestDomain: the node reports 35.189.202.25 and 1.2.3.4 is given
C9_Witness ==
    /\ gd.pc = "returned"
    /\ gd.args.externalIP = "1.2.3.4"
    /\ IsFirstExternalAddress(nodes, "35.189.202.25")
    /\ svc.Type = ServiceTypeNodePort
    /\ n.nodeList = 0
    /\ gd.retDomain = "1.2.3.4:30123"

\* C10: a poll whose probe was not ready N times and ready on call N + 1, with
\* N intervals within the timeout, reports the host, and the notice "waiting
\* for external Host" was logged once if N >= 1 and not at all if N = 0.
C10_OneNotice ==
    /\ (pc = "wait" /\ wait.pc = "returned" /\ wait.err = Nil /\ wait.probes >= 1) =>
          /\ wait.hasHost
          /\ wait.elapsed = 3 * (wait.probes - 1)
          /\ wait.elapsed <= 300
          /\ n.notice = IF wait.probes = 1 THEN 0 ELSE 1
    /\ (pc = "wait" /\ wait.pc = "probe") =>
          /\ n.notice = IF wait.probes = 0 THEN 0 ELSE 1
          /\ wait.loggedWait = (wait.probes > 0)

\* the probe was not ready twice or more and then ready
C10_Witness ==
    /\ pc = "wait"
    /\ wait.pc = "returned"
    /\ wait.hasHost
    /\ wait.probes >= 3
    /\ n.notice = 1

\* C11: a poll whose probe is never ready ends with the timeout error, and the
\* probe is called at most ceil(timeout / interval) + 1 times: 101 times for
\* the poll of 5 minutes every 3 seconds.
C11_PollBound ==
    /\ wait.probes <= 101
    /\ wait.elapsed <= 300
    /\ (pc = "wait" /\ wait.pc = "probe") => wait.elapsed = 3 * wait.probes
    /\ (wait.pc = "probe" /\ wait.probes = 101) => FALSE
    /\ (wait.pc = "returned" /\ wait.err = "Timed out") =>
          /\ ~wait.hasHost
          /\ wait.probes = 101
          /\ wait.elapsed = 300

\* the probe was never ready and the poll has timed out
C11_Witness ==
    /\ pc = "wait"
    /\ wait.pc = "returned"
    /\ wait.err = "Timed out"
    /\ wait.probes = 101
    /\ svc.Ingress = <<>>

\* C12: when the probe (or the first read of the service) returns an error, the
\* poll ends at once with that error and hasHost false, the probe is not called
\* again, and discoverIngressDomain returns the error without a second
\* GetDomain and without another call.
C12_PollErrorPropagates ==
    [][ /\ (pc = "wait" /\ wait.pc = "returned") =>
             /\ wait.err # Nil => ~wait.hasHost
             /\ wait'.probes \in {0, wait.probes}
             /\ wait'.pc # "probe"
        /\ (pc = "wait" /\ wait.pc = "returned" /\ wait.err # Nil) =>
             /\ result'.discover = "getting a domain for ingress service "
                                      \o o.IngressNamespace \o "/" \o o.IngressService
                                      \o ": " \o wait.err
             /\ pc' \in {"discovered", "done"}
             /\ n' = n
             /\ n.getDomain = 1
             /\ gd' = gd
             /\ requirements' = requirements
        /\ (pc = "wait" /\ wait.pc = "probe" /\ wait'.err \notin {Nil, "Timed out"}) =>
             /\ wait'.pc = "returned"
             /\ wait'.probes = wait.probes + 1
      ]_vars

\* the read of the service failed on a probe after one that was not ready
C12_Witness ==
    /\ result.discover =
          "getting a domain for ingress service nginx/nginx-ingress-controller: ServerError"
    /\ n.poll = 1
    /\ n.notice = 1
    /\ n.getDomain = 1

\* C13: when the ingress service does not exist, GetDomain (for a provider
\* other than minikube and minishift) returns the error of its single read of
\* the service, NotFound, with no domain; discoverIngressDomain then returns an
\* error without starting the poll and without changing the requirements.
C13_ServiceNotFound ==
    [][ /\ ( /\ pc = "GetDomain1" /\ gd.pc = "returned" /\ ~svc.exists
             /\ gd.args.provider \notin {MINIKUBE, MINISHIFT} ) =>
             /\ gd.retErr \in {"NotFound", "ServerError"}
             /\ gd.retDomain = ""
             /\ n.svcGet = 1
        /\ (pc = "GetDomain1" /\ gd.pc = "returned" /\ gd.retErr = "NotFound") =>
             /\ ~svc.exists
             /\ n.svcGet = 1
             /\ n.poll = 0
             /\ n' = n
             /\ wait' = wait
             /\ requirements = saved
             /\ requirements' = requirements
             /\ saved' = saved
             /\ pc' \in {"discovered", "done"}
             /\ result'.discover = "getting a domain for ingress service "
                                      \o o.IngressNamespace \o "/" \o o.IngressService
                                      \o ": NotFound"
      ]_vars

\* discoverIngressDomain has returned the NotFound of the only read of the service
C13_Witness ==
    /\ ~svc.exists
    /\ result.discover =
          "getting a domain for ingress service nginx/nginx-ingress-controller: NotFound"
    /\ n.svcGet = 1
    /\ n.poll = 0
    /\ requirements.Ingress.Domain = ""

C15_SaveOnce ==
    [][ /\ pc = "save" =>
             /\ n.save = 0
             /\ n'.save = 1
             /\ domain # ""
             /\ requirements.Ingress.Domain = domain
             /\ requirements' = requirements
             /\ pc' \in {"discovered", "done"}
             /\ \/ result'.discover = Nil /\ saved' = requirements
                \/ /\ result'.discover =
                         "failed to save changes to file: jx-requirements.yml: disk full"
                   /\ saved' = saved
        /\ n'.save # n.save => pc \in {"save", "RunSave"}
        /\ saved' # saved => pc \in {"save", "RunSave"}
        /\ HasPrefix(result.discover, "failed to save changes to file") =>
             /\ n' = n
             /\ saved' = saved
             /\ saved.Ingress.Domain = ""
      ]_vars

\* the only save of the call failed and the error was returned to Run
C15_Witness ==
    /\ pc = "done"
    /\ result.discover = "failed to save changes to file: jx-requirements.yml: disk full"
    /\ n.save = 1
    /\ requirements.Ingress.Domain # ""
    /\ saved.Ingress.Domain = ""

\* the pair findDefaultIngressValues is to give, stated on the kind and the apps
ExpectedDefaults ==
    IF requirements.Ingress.Kind = "istio"
    THEN [Namespace |-> "istio-system", Service |-> "istio-ingressgateway"]
    ELSE IF requirements.Ingress.Kind = "ingress"
    THEN [Namespace |-> "nginx", Service |-> "nginx-ingress-controller"]
    ELSE IF \E i \in 1..Len(appsConfig) :
               /\ Len(appsConfig[i]) >= 6
               /\ SubSeq(appsConfig[i], Len(appsConfig[i]) - 5, Len(appsConfig[i])) = "/istio"
    THEN [Namespace |-> "istio-system", Service |-> "istio-ingressgateway"]
    ELSE [Namespace |-> "nginx", Service |-> "nginx-ingress-controller"]

\* C16: findDefaultIngressValues gives (istio-system, istio-ingressgateway) for
\* kind istio, (nginx, nginx-ingress-controller) for kind ingress whatever the
\* apps, else the istio pair when an app name ends in "/istio", else the nginx
\* pair; it is never empty, and it is what the options get when neither flag
\* nor requirements name the namespace or the service.
C16_DefaultIngressValues ==
    /\ findDefaultIngressValues(requirements, appsConfig) = ExpectedDefaults
    /\ findDefaultIngressValues(requirements, appsConfig).Namespace # ""
    /\ findDefaultIngressValues(requirements, appsConfig).Service # ""
    /\ ( /\ pc = "GetDomain1" /\ requirements.Ingress.Namespace = ""
         /\ o.IngressNamespace # "kube-system" )
       => o.IngressNamespace = ExpectedDefaults.Namespace
    /\ ( /\ pc = "GetDomain1" /\ requirements.Ingress.Service = ""
         /\ o.IngressService # "traefik" )
       => o.IngressService = ExpectedDefaults.Service

\* kind ingress with an istio app declared: the nginx pair was taken
C16_Witness ==
    /\ pc = "GetDomain1"
    /\ requirements.Ingress.Kind = "ingress"
    /\ appsConfig = <<"jx-labs/istio">>
    /\ o.IngressNamespace = "nginx"
    /\ o.IngressService = "nginx-ingress-controller"

\* C17: in batch mode GetDomain asks nothing: neither the yes/no confirmation
\* nor the prompt for a domain is invoked, at any position of the function and
\* for every provider, and no error of a prompt is returned.
C17_NoPromptInBatch ==
    o.BatchMode =>
       /\ n.confirm = 0
       /\ n.ask = 0
       /\ gd.pc \notin {"confirm", "custom"}
       /\ gd.retErr # "ConfirmFailed"

\* a batch call resolved a hostname and returned without having asked
C17_Witness ==
    /\ o.BatchMode
    /\ gd.pc = "returned"
    /\ gd.args.provider = ""
    /\ gd.located = AmazonHostName
    /\ gd.resolved
    /\ gd.tries >= 2
    /\ n.confirm = 0
    /\ n.ask = 0

\* the call has ended: Run or discoverIngressDomain has returned or the
\* program has panicked, or GetDomain called on its own has returned or panicked
Terminated ==
    \/ pc \in {"done", "panic"}
    \/ pc = "GetDomain" /\ gd.pc \in {"returned", "panic"}

\* C18 as stated: every call of GetDomain and of discoverIngressDomain ends,
\* whatever the API and DNS answer and whatever the user answers.
C18_AlwaysTerminates == <>Terminated

\* C18 amended: every call ends unless the user, on aws or eks in interactive
\* mode, confirms and enters an empty custom domain again and again for ever;
\* the poll and the DNS lookup are bounded.
C18_TerminatesUnlessAskedForever ==
    ([]<>(gd.pc = "custom")) \/ <>Terminated

\* the user has entered an empty custom domain twice and is asked to confirm again
C18_Witness ==
    /\ gd.pc = "confirm"
    /\ gd.args.provider = AWS
    /\ ~o.BatchMode
    /\ n.confirm = 2
    /\ n.ask = 2
    /\ n.register = 0

\* C19 as stated: up to its save, discoverIngressDomain has changed no field of
\* the requirements but ingress.domain and cluster.registry.
C19_OnlyDomainAndRegistry ==
    n.save = 0 =>
       [requirements EXCEPT !.Ingress.Domain = "", !.Cluster.Registry = ""]
          = [saved EXCEPT !.Ingress.Domain = "", !.Cluster.Registry = ""]

\* C19 amended: discoverIngressDomain changes ingress.domain, cluster.registry
\* and, for provider kubernetes with no registry, an empty cluster.namespace,
\* which it sets to "jx"; cluster.provider and the other ingress fields are
\* left as they are.
C19_DomainRegistryAndNamespace ==
    [][ /\ requirements'.Cluster.Provider = requirements.Cluster.Provider
        /\ [requirements'.Ingress EXCEPT !.Domain = ""]
              = [requirements.Ingress EXCEPT !.Domain = ""]
        /\ requirements'.Ingress.Domain # requirements.Ingress.Domain =>
              /\ pc = "check"
              /\ requirements.Ingress.Domain = ""
              /\ requirements'.Ingress.Domain = domain
        /\ requirements'.Cluster.Registry # requirements.Cluster.Registry =>
              /\ pc = "registry"
              /\ requirements.Cluster.Registry = ""
        /\ requirements'.Cluster.Namespace # requirements.Cluster.Namespace =>
              /\ pc = "registry"
              /\ requirements.Cluster.Namespace = ""
              /\ requirements'.Cluster.Namespace = "jx"
        /\ ( /\ pc = "registry" /\ requirements.Cluster.Provider = "kubernetes"
             /\ requirements.Cluster.Registry = "" /\ requirements.Cluster.Namespace = "" )
           => requirements'.Cluster.Namespace = "jx"
        /\ ( /\ pc = "registry"
             /\ ~(requirements.Cluster.Provider = "kubernetes"
                  /\ requirements.Cluster.Registry = "") )
           => requirements' = requirements
      ]_vars

\* the namespace "jx" was written to the file together with the domain
C19_Witness ==
    /\ result.discover = Nil
    /\ saved.Cluster.Namespace = "jx"
    /\ saved.Cluster.Provider = "kubernetes"
    /\ saved.Ingress.Domain # ""
    /\ n.registryGet = 1

\* the entry reports an address
ReportsAddress(entry) == entry.IP # "" \/ entry.Hostname # ""

\* C20: the scan of the load-balancer status takes, of the last entry that has
\* an IP or a hostname, the IP if it has one and else the hostname; entries
\* with neither are passed over, and with no such entry the address stays the
\* external IP given to GetDomain.
C20_LoadBalancerScan ==
    ( /\ gd.pc \in {"aws", "iks", "resolve"}
      /\ svc.exists /\ svc.Type = ServiceTypeLoadBalancer )
    => /\ \A i \in 1..Len(svc.Ingress) :
             ( /\ ReportsAddress(svc.Ingress[i])
               /\ \A j \in (i + 1)..Len(svc.Ingress) : ~ReportsAddress(svc.Ingress[j]) )
             => gd.located = IF svc.Ingress[i].IP # "" THEN svc.Ingress[i].IP
                             ELSE svc.Ingress[i].Hostname
       /\ (\A i \in 1..Len(svc.Ingress) : ~ReportsAddress(svc.Ingress[i]))
             => gd.located = gd.args.externalIP

\* a hostname-only entry after an entry with an IP: the hostname is the address
C20_Witness ==
    /\ gd.pc = "resolve"
    /\ svc.Ingress = << [IP |-> "35.205.151.95", Hostname |-> ""],
                        [IP |-> "", Hostname |-> "lb.example.com"] >>
    /\ gd.located = "lb.example.com"

\* GetDomain is just past the provider switch
Located == gd.pc \in {"aws", "iks", "resolve"}

\* port is the first non-zero node port of the ports
IsFirstNodePort(ports, port) ==
    \E k \in 1..Len(ports) :
       /\ ports[k].NodePort = port
       /\ port # 0
       /\ \A j \in 1..(k - 1) : ports[j].NodePort = 0

\* C21 as stated: for a NodePort service and an external IP the located address
\* is the external IP and the node port of the first port that has one.
C21_FirstNodePort ==
    \A P \in {30123, 32443} :
       ( /\ Located /\ svc.exists /\ svc.Type = ServiceTypeNodePort
         /\ gd.externalIP # ""
         /\ IsFirstNodePort(svc.Ports, P) )
       => gd.located = gd.externalIP \o ":" \o PortText(P)

\* C21 amended: for a NodePort service with several ports that have node
\* ports, the located address is the external IP and the node port of the last
\* of them; it is that of the first only when no later port has another one.
C21_LastOfSeveralNodePorts ==
    \A P \in {30123, 32443} : \A Q \in {30123, 32443} :
       ( /\ Located /\ svc.exists /\ svc.Type = ServiceTypeNodePort
         /\ gd.externalIP # ""
         /\ Len(svc.Ports) >= 2
         /\ IsFirstNodePort(svc.Ports, P)
         /\ HasNodePort(svc.Ports, Q) )
       => /\ gd.located = gd.externalIP \o ":" \o PortText(Q)
          /\ (gd.located = gd.externalIP \o ":" \o PortText(P)) <=> (P = Q)

\* http 30123 and then https 32443: the address is made of 32443
C21_Witness ==
    /\ Located
    /\ svc.Ports = << [Name |-> "http", NodePort |-> 30123],
                      [Name |-> "https", NodePort |-> 32443] >>
    /\ gd.located = "35.189.202.25:32443"

\* C22: for a NodePort service and an external IP, the located address is the
\* external IP and the node port of the last port that has one, whatever the
\* names of the ports; with no such port the address is not changed.
C22_LastNodePortWins ==
    /\ \A Q \in {30123, 32443} :
          ( /\ Located /\ svc.exists /\ svc.Type = ServiceTypeNodePort
            /\ gd.externalIP # ""
            /\ HasNodePort(svc.Ports, Q) )
          => gd.located = gd.externalIP \o ":" \o PortText(Q)
    /\ ( /\ Located /\ svc.exists /\ svc.Type = ServiceTypeNodePort
         /\ svc.Ingress = <<>>
         /\ \A k \in 1..Len(svc.Ports) : svc.Ports[k].NodePort = 0 )
       => gd.located = gd.args.externalIP

\* https 32443 and then http 30123, with the external IP given
C22_Witness ==
    /\ Located
    /\ svc.Ports = << [Name |-> "https", NodePort |-> 32443],
                      [Name |-> "http", NodePort |-> 30123] >>
    /\ gd.args.externalIP = "1.2.3.4"
    /\ gd.located = "1.2.3.4:30123"

\* no node of the list has a non-empty address of type ExternalIP
NoExternalAddress(items) ==
    \A i \in 1..Len(items) : \A j \in 1..Len(items[i]) :
       ~(items[i][j].Type = NodeExternalIP /\ items[i][j].Address # "")

\* C23: for a NodePort service and no external IP given, when no node has a
\* non-empty ExternalIP address (or the node list is not found) the locate step
\* makes no ip:port address and no error; the address is that of the
\* load-balancer status, empty when there is none.  Only a node list that
\* could not be read is an error.
C23_NodePortSoftFailure ==
    /\ ( /\ svc.exists /\ svc.Type = ServiceTypeNodePort
         /\ gd.args.externalIP = ""
         /\ \/ gd.listErr = "NotFound"
            \/ gd.listErr = Nil /\ NoExternalAddress(nodes) )
       => /\ gd.pc # "switch"
          /\ gd.externalIP = ""
          /\ gd.located = IF svc.Ingress = <<>> THEN "" ELSE svc.Ingress[Len(svc.Ingress)].IP
          /\ ~HasPrefix(gd.retErr, "no externalIP specified")
          /\ (gd.pc = "returned" /\ o.BatchMode /\ gd.args.provider \in GenericProviders)
                => gd.retErr = Nil
    /\ HasPrefix(gd.retErr, "no externalIP specified") => gd.listErr = "Forbidden"

\* the nodes were listed, none has an external address, and nothing was located
C23_Witness ==
    /\ Located
    /\ svc.Type = ServiceTypeNodePort
    /\ svc.Ports = << [Name |-> "http", NodePort |-> 30123] >>
    /\ svc.Ingress = <<>>
    /\ nodes = <<NodeInternalOnly, NodeEmptyExternal>>
    /\ gd.listErr = Nil
    /\ gd.located = ""

\* C24: for minikube and minishift GetDomain reads no service and lists no
\* nodes; it runs "<provider> ip" once when no external IP is given and not at
\* all when one is; when the command fails GetDomain returns no domain and the
\* error at once, without another run and without a prompt.
C24_LocalDev ==
    /\ gd.args.provider \in {MINIKUBE, MINISHIFT} =>
          /\ n.svcGet = 0
          /\ n.nodeList = 0
          /\ n.command = IF gd.pc # "switch" /\ gd.args.externalIP = "" THEN 1 ELSE 0
          /\ (gd.pc # "switch" /\ gd.retErr # "CommandFailed") =>
                gd.located = IF gd.args.externalIP = "" THEN "192.168.99.100"
                             ELSE gd.args.externalIP
    /\ gd.retErr = "CommandFailed" =>
          /\ gd.args.provider \in {MINIKUBE, MINISHIFT}
          /\ gd.args.externalIP = ""
          /\ gd.pc = "returned"
          /\ gd.retDomain = ""
          /\ gd.located = ""
          /\ n.command = 1
          /\ n.confirm = 0
          /\ n.ask = 0
    /\ (gd.pc # "idle" /\ gd.args.provider \notin {MINIKUBE, MINISHIFT}) => n.command = 0

\* minishift ip has failed and GetDomain has returned the error
C24_Witness ==
    /\ gd.pc = "returned"
    /\ gd.args.provider = MINISHIFT
    /\ gd.retErr = "CommandFailed"
    /\ n.command = 1

\* C25 as stated: for iks and no explicit domain GetDomain never crashes and
\* never returns an error of the name or region lookup: it returns
\* <name>.<region>.containers.appdomain.cloud or goes on to the generic path.
C25_IKSFallsThrough ==
    (gd.args.provider = IKS /\ gd.args.domain = "") =>
       /\ gd.pc # "panic"
       /\ gd.retErr # "LookupFailed"
       /\ (gd.pc = "returned" /\ HasSuffix(gd.retDomain, IKSSuffix)) =>
             gd.retDomain = "mycluster.us-south.containers.appdomain.cloud"

\* lookups that never gave a usable IP and are over
LookupExhausted == gd.pc \in {"final", "returned"} /\ gd.tries >= 1 /\ ~gd.resolved

\* C26 as stated: the lookup function is invoked no more than 5 times.
C26_FiveAttempts == gd.tries <= 5

\* C26: the lookup function is invoked no more than 30 (5*6) times, and when
\* it never yields a usable IP it has been invoked exactly 30 times before
\* GetDomain goes on.
C26_ThirtyAttempts ==
    /\ gd.tries <= 30
    /\ LookupExhausted => gd.tries = 30
    /\ (gd.pc = "lookup") => gd.tries < 30

C26_Witness == gd.pc = "final" /\ ~gd.resolved /\ gd.tries = 30 /\ gd.retDomain = ""

\* C27: after the lookups of a hostname address (nodePort false): if none gave
\* a non-loopback IP within the retry bound, the address and the default
\* domain stay the located hostname without ".nip.io", no error is returned,
\* and a batch call with no explicit domain returns the hostname; if one did,
\* the first non-loopback IP of the answer (52.1.2.3 in every answer that has
\* one) replaces the address and the default domain is that IP + ".nip.io".
C27_DNSFallback ==
    (gd.pc \in {"final", "returned"} /\ gd.tries >= 1) =>
       /\ ~gd.nodePort /\ ~IsIP(gd.located) /\ gd.located # ""
       /\ gd.retErr = Nil
       /\ IF gd.resolved
          THEN /\ gd.address = "52.1.2.3"
               /\ gd.defaultDomain = "52.1.2.3.nip.io"
          ELSE /\ gd.tries = LookupAttempts
               /\ gd.address = gd.located
               /\ gd.defaultDomain = gd.located
               /\ ~HasSuffix(gd.defaultDomain, NipSuffix)
               /\ (gd.pc = "returned" /\ o.BatchMode /\ gd.args.domain = "")
                     => gd.retDomain = gd.located

\* a batch call gave up on a hostname and returned it
C27_Witness ==
    /\ gd.pc = "returned"
    /\ o.BatchMode
    /\ gd.args.domain = ""
    /\ ~gd.resolved
    /\ gd.tries = LookupAttempts
    /\ gd.located = HostName
    /\ gd.retDomain = HostName
    /\ gd.retErr = Nil

\* the located address has the public-cloud hostname suffix
LocatedAmazon == HasSuffix(gd.located, AmazonSuffix)

\* C28 as stated: no domain of the form <something>.amazonaws.com.nip.io is
\* returned, and whenever the located address has the suffix ".amazonaws.com"
\* the default domain has no ".nip.io" suffix at all.
C28_NeverNip ==
    (gd.pc \in {"final", "returned"}) =>
       /\ ~HasSuffix(gd.retDomain, AmazonSuffix \o NipSuffix)
       /\ LocatedAmazon => ~HasSuffix(gd.defaultDomain, NipSuffix)

\* C28 amended: no domain of the form <something>.amazonaws.com.nip.io is
\* made or returned; once the default domain is made, a located address with
\* the suffix ".amazonaws.com" gives <IP>.nip.io when it was resolved to an
\* IP, and the hostname itself, unwrapped, when it was not.
C28_HostnameNeverWrapped ==
    (gd.pc \in {"final", "returned"}) =>
       /\ ~HasSuffix(gd.retDomain, AmazonSuffix \o NipSuffix)
       /\ ~HasSuffix(gd.defaultDomain, AmazonSuffix \o NipSuffix)
       /\ (LocatedAmazon /\ (gd.pc = "final" \/ gd.defaultDomain # "")) =>
             gd.defaultDomain = IF gd.resolved THEN gd.address \o NipSuffix
                                ELSE gd.located
       /\ (LocatedAmazon /\ gd.resolved) => IsIP(gd.address)

\* an interactive call resolved an Amazon hostname; the default is the IP's
C28_Witness ==
    /\ gd.pc = "final"
    /\ ~o.BatchMode
    /\ gd.located = AmazonHostName
    /\ gd.resolved
    /\ gd.defaultDomain = "52.1.2.3.nip.io"

\* C29: the step that ends the generic path returns without an error; with no
\* explicit domain a batch call returns the default domain unchanged and asks
\* nothing, an interactive call asks once and returns the answer, or the
\* default when the answer is empty; an explicit domain is returned unchanged
\* and nothing is asked.
C29_FinalStep ==
    [][gd.pc = "final" =>
         /\ gd'.pc = "returned"
         /\ gd'.retErr = Nil
         /\ gd'.defaultDomain = gd.defaultDomain
         /\ IF gd.args.domain # ""
            THEN gd'.retDomain = gd.args.domain /\ n' = n
            ELSE IF o.BatchMode
            THEN gd'.retDomain = gd.defaultDomain /\ n' = n
            ELSE /\ n' = [n EXCEPT !.ask = Inc(n.ask)]
                 /\ n.ask < MaxCount => n'.ask = n.ask + 1
                 /\ gd'.retDomain \in {gd.defaultDomain, CustomDomain}
                 /\ gd'.retDomain = "" => gd.defaultDomain = ""]_vars

\* an interactive call resolved a hostname, asked once and returned the answer
C29_Witness ==
    /\ gd.pc = "returned"
    /\ ~o.BatchMode
    /\ gd.args.domain = ""
    /\ gd.located = HostName
    /\ gd.resolved
    /\ n.ask = 1
    /\ gd.retDomain = CustomDomain

\* C30: the input resolution of discoverIngressDomain leaves the provider flag
\* when it is set and takes requirements.Cluster.Provider otherwise; the
\* ingress namespace and the ingress service are each, on their own, the flag
\* when set, else the value of requirements.Ingress when set, else the default
\* of findDefaultIngressValues; GetDomain is then called with these values.
C30_InputResolution ==
    [][pc = "resolve" =>
         /\ o'.Provider = IF o.Provider # "" THEN o.Provider
                          ELSE requirements.Cluster.Provider
         /\ o'.IngressNamespace =
               IF o.IngressNamespace # "" THEN o.IngressNamespace
               ELSE IF requirements.Ingress.Namespace # ""
               THEN requirements.Ingress.Namespace
               ELSE ExpectedDefaults.Namespace
         /\ o'.IngressService =
               IF o.IngressService # "" THEN o.IngressService
               ELSE IF requirements.Ingress.Service # ""
               THEN requirements.Ingress.Service
               ELSE ExpectedDefaults.Service
         /\ o'.BatchMode = o.BatchMode
         /\ gd'.args.provider = o'.Provider
         /\ gd'.args.domain = ""
         /\ requirements' = requirements]_vars

\* resolved from three places: the namespace from the flag, the service from
\* the requirements, the provider from the requirements
C30_Witness ==
    /\ pc = "GetDomain1"
    /\ o.IngressNamespace = "kube-system"
    /\ requirements.Ingress.Namespace = "ingress-ns"
    /\ o.IngressService = "ingress-svc"
    /\ o.Provider = KUBERNETES
    /\ gd.args.provider = KUBERNETES

\* a call that loaded the file with no domain in it has saved and returned nil
Resolved(c) == runs[c].pc = "done" /\ runs[c].firstTime /\ runs[c].err = Nil

\* the calls that are at a SaveConfig
Saving == {c \in Callers : runs[c].pc \in {"save", "tls"}}

\* C31: two calls that both loaded the file without a domain can find different
\* default domains and both return nil; a SaveConfig of a call that succeeds
\* writes that call's requirements whatever the file holds, nothing else
\* changes the file, so the file holds the domain of the call that saved last;
\* and when every call that has loaded found a domain in the file, the file's
\* domain is never changed.
C31_LastWriterWins ==
    /\ [][/\ \A c \in Callers :
                (runs[c].pc \in {"save", "tls"} /\ runs'[c].pc # runs[c].pc
                   /\ (runs'[c].pc = "tls" \/ runs'[c].err = Nil))
                => saved' = runs[c].requirements
          /\ saved' # saved => \E c \in Saving : saved' = runs[c].requirements
          /\ (saved.Ingress.Domain # "" /\ \A c \in Callers : ~runs[c].firstTime)
                => saved'.Ingress.Domain = saved.Ingress.Domain]_vars
    /\ []((\A c \in Callers : Resolved(c))
             => \E c \in Callers : saved = runs[c].requirements)
    /\ [](\A c \in Callers :
             (runs[c].pc = "done" /\ runs[c].err # Nil)
                => \/ runs[c].err \in
                        { Wrap("failed to load Jenkins X requirements", "unreadable"),
                          Wrap("failed to discover the Ingress domain", "ServerError"),
                          Wrap("failed to discover the Ingress domain",
                               "failed to discover domain for ingress service"),
                          Wrap("failed to discover the Ingress domain",
                               Wrap("failed to save changes to file: jx-requirements.yml", "disk full")),
                          "disk full",
                          "TLS is not supported with automated domains",
                          "You must provide a valid email address to enable TLS" })

\* both calls resolved the domain for the first time and returned nil; the
\* first call found its domain before the service got another IP and saved
\* after the second, so the file holds the first call's domain
C31_Witness ==
    /\ Resolved("first") /\ Resolved("second")
    /\ runs["first"].requirements.Ingress.Domain = "35.205.151.95.nip.io"
    /\ runs["second"].requirements.Ingress.Domain = "10.20.30.40.nip.io"
    /\ saved.Ingress.Domain = "35.205.151.95.nip.io"

\* C32: while discoverIngressDomain waits, the namespace and the service it
\* passed to waitForIngressControllerHost are not empty; the poll never
\* returns (false, nil), so the "could not find host" branch is never taken;
\* and when the poll returns without an error the next step is the second
\* call of GetDomain.
C32_WaitAlwaysNamed ==
    /\ [](pc = "wait" =>
            /\ o.IngressNamespace # "" /\ o.IngressService # ""
            /\ wait.pc = "returned" => (wait.hasHost \/ wait.err # Nil))
    /\ [][(pc = "wait" /\ wait.pc = "returned" /\ wait.err = Nil /\ pc' # pc)
             => /\ pc' = "GetDomain2"
                /\ gd'.pc = "switch"
                /\ n'.getDomain = Inc(n.getDomain)]_vars

\* the poll for the default istio service has ended and GetDomain is called again
C32_Witness ==
    /\ pc = "GetDomain2"
    /\ gd.pc = "switch"
    /\ o.IngressNamespace = "istio-system"
    /\ o.IngressService = "istio-ingressgateway"
    /\ n.poll = 1
    /\ n.getDomain = 2

\* discoverIngressDomain has returned an error raised before it had a domain:
\* no client, a failed first or second GetDomain, a failed or timed-out poll,
\* or a domain that is still empty
EarlyFailure ==
    \/ HasPrefix(result.discover, "getting the kubernetes client")
    \/ HasPrefix(result.discover, "getting a domain for ingress service")
    \/ HasPrefix(result.discover, "failed to discover domain for ingress service")

\* C33: when discoverIngressDomain returns an error raised before a non-empty
\* domain was found, the requirements are as they were loaded: the domain is
\* still empty when it was empty on entry (as it is in every call Run makes),
\* the registry and the cluster namespace are unchanged, the docker-registry
\* service was not read and SaveConfig was not called.
C33_EarlyFailureChangesNothing ==
    EarlyFailure =>
       /\ requirements = saved
       /\ result.entry = "Run" => requirements.Ingress.Domain = ""
       /\ n.registryGet = 0
       /\ n.save = 0
       /\ domain = ""

\* the second GetDomain failed after a poll that found a host
C33_Witness ==
    /\ pc = "done"
    /\ result.entry = "Run"
    /\ HasPrefix(result.discover, "getting a domain for ingress service")
    /\ n.poll = 1
    /\ n.getDomain = 2
    /\ requirements.Cluster.Provider = KUBERNETES
    /\ requirements.Cluster.Registry = ""
    /\ n.save = 0

\* C34: the poll ends with (true, nil) only when the service reports a
\* load-balancer hostname or IP.  For a service that never does (a NodePort
\* service), once the first GetDomain gave nothing discoverIngressDomain
\* makes no second call, stores no domain and does not return nil, whatever
\* the nodes report meanwhile; and its wait always ends in the error of the
\* poll, the timeout when the service could be read throughout.
C34_ProbeSeesOnlyLoadBalancer ==
    /\ []((pc = "wait" /\ wait.pc = "returned" /\ wait.err = Nil)
             => HasLoadBalancerHost(svc.Ingress))
    /\ []((svc.Type = ServiceTypeNodePort /\ n.poll >= 1)
             => /\ pc \in {"wait", "discovered", "done"}
                /\ result.discover # Nil
                /\ result.run # Nil
                /\ requirements.Ingress.Domain = ""
                /\ n.getDomain = 1
                /\ pc \in {"discovered", "done"}
                      => \/ HasSuffix(result.discover, "Timed out")
                         \/ HasSuffix(result.discover, "ServerError"))
    /\ (pc = "wait" /\ svc.Type = ServiceTypeNodePort)
          ~> (pc = "done" /\ HasPrefix(result.discover, "getting a domain for ingress service"))

\* the poll for a NodePort service timed out although a node has an external
\* address by now
C34_Witness ==
    /\ pc = "done"
    /\ svc.Type = ServiceTypeNodePort
    /\ nodes = <<NodeWithExternal>>
    /\ n.nodeList = 1
    /\ n.poll = 1
    /\ HasSuffix(result.discover, "Timed out")
    /\ HasPrefix(result.run, "failed to discover the Ingress domain")

\* an address of the form <IP>:<port>
IsIPPort(s) ==
    \E i \in 2..(Len(s) - 1) :
       /\ Char(s, i) = ":"
       /\ IsIP(SubSeq(s, 1, i - 1))
       /\ \A j \in (i + 1)..Len(s) : IsDigit(Char(s, j))

\* a batch call without an explicit domain has returned a domain and no error
BatchAnswer == gd.pc = "returned" /\ o.BatchMode /\ gd.args.domain = "" /\ gd.retErr = Nil

\* C35 as stated: in batch mode with no explicit domain, whenever nodePort is
\* true GetDomain returns the located address verbatim, without ".nip.io" and
\* without any DNS lookup; and an ip:port address is returned verbatim without
\* a DNS lookup only when nodePort is true.
C35_NodePortVerbatim ==
    /\ (BatchAnswer /\ gd.args.nodePort) =>
          /\ gd.retDomain = gd.located
          /\ ~HasSuffix(gd.retDomain, NipSuffix)
          /\ gd.tries = 0
    /\ (BatchAnswer /\ IsIPPort(gd.located) /\ gd.retDomain = gd.located /\ gd.tries = 0)
          => gd.args.nodePort

\* C35 amended: with nodePort true no DNS lookup is made and no ".nip.io" is
\* put on the address, whatever the type of the service; a batch call with no
\* explicit domain then returns the located address verbatim, unless the
\* provider is iks and the IKS cluster domain is returned in its place; and
\* with nodePort false an ip:port address is returned verbatim by a batch call
\* only after the DNS lookups of it have been tried and have failed.
C35_NodePortFlagGoverns ==
    /\ gd.args.nodePort =>
          /\ gd.tries = 0 /\ ~gd.resolved /\ gd.pc # "lookup"
          /\ ~HasSuffix(gd.defaultDomain, NipSuffix)
          /\ BatchAnswer => ~HasSuffix(gd.retDomain, NipSuffix)
    /\ (BatchAnswer /\ gd.args.nodePort) =>
          \/ gd.retDomain = gd.located
          \/ /\ gd.args.provider = IKS
             /\ gd.retDomain = "mycluster.us-south.containers.appdomain.cloud"
    /\ (BatchAnswer /\ IsIPPort(gd.located) /\ gd.retDomain = gd.located)
          => (gd.args.nodePort \/ gd.tries = LookupAttempts)

\* nodePort is true for a load-balancer service that reports an IP: the IP is
\* returned as it is
C35_Witness ==
    /\ BatchAnswer
    /\ gd.args.nodePort
    /\ svc.Type = ServiceTypeLoadBalancer
    /\ gd.located = LoadBalancerIP
    /\ gd.retDomain = LoadBalancerIP
    /\ gd.tries = 0

\* TLS is enabled and cannot be had: the domain is an automated one, or the
\* mail address is not valid
TLSRejected ==
    /\ requirements.Ingress.TLS.Enabled
    /\ \/ IsAutoDNSDomain(requirements.Ingress)
       \/ ~IsMailAddress(requirements.Ingress.TLS.Email)

\* C36: with TLS enabled and an automated domain, or a mail address that is
\* not valid, Run never returns nil and never reaches its final SaveConfig;
\* once the domain is there it returns one of the two TLS errors; and a domain
\* discovered in the same Run is then already in the file, written by the one
\* SaveConfig of discoverIngressDomain.
C36_NoTLSWithAutoDomain ==
    (result.entry = "Run" /\ TLSRejected) =>
       /\ pc # "RunSave"
       /\ pc = "done" =>
             /\ result.run # Nil
             /\ (result.discover \in {"none", Nil} /\ requirements.Ingress.Domain # "") =>
                   result.run = IF IsAutoDNSDomain(requirements.Ingress)
                                THEN "TLS is not supported with automated domains like "
                                        \o requirements.Ingress.Domain
                                        \o ", you will need to use a real domain you own"
                                ELSE "You must provide a valid email address to enable TLS"
             /\ result.discover = "none" => (n.save = 0 /\ saved = requirements)
             /\ result.discover = Nil =>
                   /\ requirements.Ingress.Domain # ""
                   /\ n.save = 1
                   /\ saved = requirements

\* Run discovered 35.205.151.95.nip.io, saved it, and then refused TLS
C36_Witness ==
    /\ pc = "done"
    /\ result.entry = "Run"
    /\ result.discover = Nil
    /\ requirements.Ingress.TLS = [Enabled |-> TRUE, Email |-> "admin@example.com"]
    /\ saved.Ingress.Domain = "35.205.151.95.nip.io"
    /\ n.save = 1
    /\ HasPrefix(result.run, "TLS is not supported with automated domains")

=============================================================================
